---- MODULE Spec2Model ----
(***************************************************************************)
(* KaliDNS-Switcher (kalidns.py): the configuration transition engine.     *)
(*                                                                         *)
(* The model has two specifications over one set of variables:            *)
(*   SpecAW  atomic_write executed statement by statement, interleaved     *)
(*           with a reader of the target path;                             *)
(*   Spec    the mode transitions set_dns, setup_dot, setup_doh and        *)
(*           restore_default, executed call by call in source order.       *)
(*                                                                         *)
(* Text is modelled as a sequence of chunks (one-character strings where   *)
(* the code parses it, literal strings elsewhere), a file content as a     *)
(* sequence of lines, the clock in whole seconds.                          *)
(***************************************************************************)
EXTENDS Integers, Sequences, FiniteSets, TLC

(***************************************************************************)
(* Text helpers: str.strip, str.split, int(), '%x', str(int).              *)
(***************************************************************************)
WS == {" ", "\t", "\n"}

RECURSIVE lstrip(_)
lstrip(s) == IF s # <<>> /\ Head(s) \in WS THEN lstrip(Tail(s)) ELSE s

RECURSIVE rstrip(_)
rstrip(s) ==
    IF s # <<>> /\ s[Len(s)] \in WS THEN rstrip(SubSeq(s, 1, Len(s) - 1)) ELSE s

strip(s) == rstrip(lstrip(s))

\* s.split(sep): the pieces between the occurrences of sep (always >= 1 piece)
RECURSIVE SplitFrom(_, _, _, _)
SplitFrom(s, sep, i, piece) ==
    IF i > Len(s) THEN <<piece>>
    ELSE IF s[i] = sep THEN <<piece>> \o SplitFrom(s, sep, i + 1, <<>>)
    ELSE SplitFrom(s, sep, i + 1, Append(piece, s[i]))

Split(s, sep) == SplitFrom(s, sep, 1, <<>>)

HexChars == <<"0", "1", "2", "3", "4", "5", "6", "7", "8", "9",
              "a", "b", "c", "d", "e", "f">>

DigitVal(c) ==
    CASE c = "0" -> 0 [] c = "1" -> 1 [] c = "2" -> 2 [] c = "3" -> 3
      [] c = "4" -> 4 [] c = "5" -> 5 [] c = "6" -> 6 [] c = "7" -> 7
      [] c = "8" -> 8 [] c = "9" -> 9 [] OTHER -> -1

HexVal(c) ==
    CASE c \in {"a", "A"} -> 10 [] c \in {"b", "B"} -> 11
      [] c \in {"c", "C"} -> 12 [] c \in {"d", "D"} -> 13
      [] c \in {"e", "E"} -> 14 [] c \in {"f", "F"} -> 15
      [] OTHER -> DigitVal(c)

RECURSIVE ToInt(_, _, _)
ToInt(s, base, acc) ==
    IF s = <<>> THEN acc
    ELSE ToInt(Tail(s), base, acc * base + HexVal(Head(s)))

RECURSIVE FromInt(_, _)
FromInt(n, base) ==
    IF n < base THEN <<HexChars[n + 1]>>
    ELSE Append(FromInt(n \div base, base), HexChars[(n % base) + 1])

RECURSIVE Join(_, _)
Join(parts, sep) ==
    IF parts = <<>> THEN <<>>
    ELSE IF Len(parts) = 1 THEN parts[1]
    ELSE parts[1] \o <<sep>> \o Join(Tail(parts), sep)

(***************************************************************************)
(* ipaddress.ip_address / str(): IPv4 first, then IPv6.                    *)
(***************************************************************************)
None == <<"None">>

\* IPv4Address._parse_octet: -1 stands for AddressValueError
ParseOctet(o) ==
    IF o = <<>> THEN -1
    ELSE IF \E i \in 1..Len(o) : DigitVal(o[i]) < 0 THEN -1
    ELSE IF Len(o) > 3 THEN -1
    ELSE IF o # <<"0">> /\ o[1] = "0" THEN -1
    ELSE IF ToInt(o, 10, 0) > 255 THEN -1
    ELSE ToInt(o, 10, 0)

ParseIPv4(s) ==
    LET octets == Split(s, ".")
    IN  IF "/" \in {s[i] : i \in 1..Len(s)} THEN None
        ELSE IF Len(octets) # 4 THEN None
        ELSE IF \E i \in 1..4 : ParseOctet(octets[i]) < 0 THEN None
        ELSE [i \in 1..4 |-> ParseOctet(octets[i])]

FormatIPv4(octs) == Join([i \in 1..4 |-> FromInt(octs[i], 10)], ".")

\* IPv6Address._parse_hextet
ParseHextet(h) ==
    IF \E i \in 1..Len(h) : HexVal(h[i]) < 0 THEN -1
    ELSE IF Len(h) > 4 THEN -1
    ELSE ToInt(h, 16, 0)

\* IPv6Address._ip_int_from_string, without the embedded-IPv4 tail and the
\* scope id: the eight hextets, or None for AddressValueError
ParseIPv6(s) ==
    LET parts == Split(s, ":")
        n     == Len(parts)
        skips == {i \in 2..(n - 1) : parts[i] = <<>>}
    IN  IF "/" \in {s[i] : i \in 1..Len(s)} THEN None
        ELSE IF n < 3 \/ n > 9 THEN None
        ELSE IF Cardinality(skips) > 1 THEN None
        ELSE IF skips # {} THEN
            LET skip == CHOOSE i \in skips : TRUE
                hi0  == skip - 1
                lo0  == n - skip
                hi   == IF parts[1] = <<>> THEN hi0 - 1 ELSE hi0
                lo   == IF parts[n] = <<>> THEN lo0 - 1 ELSE lo0
                skipped == 8 - (hi + lo)
                his  == [i \in 1..hi |-> ParseHextet(parts[i])]
                los  == [i \in 1..lo |-> ParseHextet(parts[n - lo + i])]
            IN  IF parts[1] = <<>> /\ hi # 0 THEN None
                ELSE IF parts[n] = <<>> /\ lo # 0 THEN None
                ELSE IF skipped < 1 THEN None
                ELSE IF \E i \in 1..hi : his[i] < 0 THEN None
                ELSE IF \E i \in 1..lo : los[i] < 0 THEN None
                ELSE his \o [i \in 1..skipped |-> 0] \o los
        ELSE IF n # 8 THEN None
        ELSE IF parts[1] = <<>> \/ parts[n] = <<>> THEN None
        ELSE IF \E i \in 1..8 : ParseHextet(parts[i]) < 0 THEN None
        ELSE [i \in 1..8 |-> ParseHextet(parts[i])]

\* length of the run of zero hextets starting at i
RECURSIVE ZeroRun(_, _)
ZeroRun(h, i) == IF i > Len(h) \/ h[i] # 0 THEN 0 ELSE 1 + ZeroRun(h, i + 1)

\* IPv6Address._compress_hextets + ':'.join: the first longest run of two or
\* more zero hextets becomes '::'
FormatIPv6(h) ==
    LET best  == CHOOSE i \in 1..8 :
                    /\ \A j \in 1..8 : ZeroRun(h, j) <= ZeroRun(h, i)
                    /\ \A j \in 1..(i - 1) : ZeroRun(h, j) < ZeroRun(h, i)
        len   == ZeroRun(h, best)
        hex   == [i \in 1..8 |-> FromInt(h[i], 16)]
        left  == SubSeq(hex, 1, best - 1)
        right == SubSeq(hex, best + len, 8)
    IN  IF len < 2 THEN Join(hex, ":")
        ELSE Join(left, ":") \o <<":", ":">> \o Join(right, ":")

ip_address(s) ==
    IF ParseIPv4(s) # None THEN FormatIPv4(ParseIPv4(s))
    ELSE IF ParseIPv6(s) # None THEN FormatIPv6(ParseIPv6(s))
    ELSE None

\* (mutation: the except clause returns the string instead of None)
validate_ip_Lenient(ip_str) ==
    IF ip_address(strip(ip_str)) = None THEN strip(ip_str)
    ELSE ip_address(strip(ip_str))

\* (mutation: the string is not stripped)
validate_ip_NoStrip(ip_str) == ip_address(ip_str)

validate_ip(ip_str) == ip_address(strip(ip_str))

(***************************************************************************)
(* Configuration: paths, presets, providers (module-level constants).      *)
(***************************************************************************)
RESOLV_CONF == "/etc/resolv.conf"
SYSTEMD_RESOLVED_CONF == "/etc/systemd/resolved.conf"
DNSCRYPT_PROXY_CONF == "/etc/dnscrypt-proxy/dnscrypt-proxy.toml"
\* the path of TestAtomicWrite.test_failure_returns_false
BAD_PATH == "/nonexistent/deep/path/file.conf"

Paths == {RESOLV_CONF, SYSTEMD_RESOLVED_CONF, DNSCRYPT_PROXY_CONF, BAD_PATH}

\* os.path.dirname
dirname(p) ==
    CASE p = RESOLV_CONF -> "/etc"
      [] p = SYSTEMD_RESOLVED_CONF -> "/etc/systemd"
      [] p = DNSCRYPT_PROXY_CONF -> "/etc/dnscrypt-proxy"
      [] OTHER -> "/nonexistent/deep/path"

RESOLVED == "systemd-resolved"
DNSCRYPT == "dnscrypt-proxy"
NETWORKMANAGER == "NetworkManager"
Services == {RESOLVED, DNSCRYPT, NETWORKMANAGER}

\* timeouts and the settle interval of the blocking calls, in seconds
StopTimeout == 10
StartTimeout == 15
SettleSeconds == 1
VerifySettleSeconds == 1

\* the providers setup_dot knows: DNS= and FallbackDNS= values
DotProviders == {"Cloudflare", "Google", "Quad9"}

DotDns(provider) ==
    CASE provider = "Cloudflare" ->
            "1.1.1.1 1.0.0.1 2606:4700:4700::1111 2606:4700:4700::1001"
      [] provider = "Google" ->
            "8.8.8.8 8.8.4.4 2001:4860:4860::8888 2001:4860:4860::8844"
      [] provider = "Quad9" ->
            "9.9.9.9 149.112.112.112 2620:fe::fe 2620:fe::9"

DotFallback(provider) == IF provider = "Cloudflare" THEN "8.8.8.8" ELSE "1.1.1.1"

DOH_PROVIDERS ==
    [Cloudflare |->
        [server_name |-> "cloudflare-dns.com",
         stamp |-> "sdns://AgcAAAAAAAAABzEuMC4wLjEAEmRucy5jbG91ZGZsYXJlLmNvbQovZG5zLXF1ZXJ5",
         listen |-> "127.0.0.1:53"],
     Google |->
        [server_name |-> "dns.google",
         stamp |-> "sdns://AgUAAAAAAAAABzguOC44LjigHvYkz_9ea9O63fP92_3qVlRn43cpncfuZnUWbzAMwbkgRE69Z7uD-IB7OSHpOKyReLiCvVCq2xEjHwRM9fCN984KZG5zLmdvb2dsZQovZG5zLXF1ZXJ5",
         listen |-> "127.0.0.1:53"]]

(***************************************************************************)
(* File contents.  A line is [txt, t]: txt the text as a sequence of       *)
(* chunks (literal strings and single characters), t an interpolated       *)
(* datetime (0 when the line has none).                                    *)
(***************************************************************************)
L(txt) == [txt |-> txt, t |-> 0]

NameserverLine(ip) == L(<<"nameserver", " ">> \o ip)

IP_STUB == <<"1", "2", "7", ".", "0", ".", "0", ".", "5", "3">>
IP_LOCAL == <<"1", "2", "7", ".", "0", ".", "0", ".", "1">>

\* set_dns: content = header + one nameserver line per valid ip
StandardResolvContent(provider_name, valid_ips, at) ==
    << L(<<"# Generated by KaliDNS Tool - ", provider_name>>),
       [txt |-> <<"# Updated at: ">>, t |-> at] >>
    \o [i \in 1..Len(valid_ips) |-> NameserverLine(valid_ips[i])]

\* setup_dot: resolv_content
DotResolvContent ==
    << L(<<"# Generated by KaliDNS Tool - DoT SECURE MODE">>),
       NameserverLine(IP_STUB),
       L(<<"options", " ", "edns0", " ", "trust-ad">>) >>

\* setup_doh: resolv_content
DohResolvContent(provider) ==
    << L(<<"# Generated by KaliDNS Tool - DoH MODE (", provider, ")">>),
       NameserverLine(IP_LOCAL) >>

\* setup_dot: config_content
DotResolvedContent(provider) ==
    << L(<<"[Resolve]">>),
       L(<<"DNS=", DotDns(provider)>>),
       L(<<"FallbackDNS=", DotFallback(provider)>>),
       L(<<"Domains=~.">>),
       L(<<"DNSOverTLS=yes">>),
       L(<<"DNSSEC=allow-downgrade">>) >>

\* restore_default: default_systemd
DefaultResolvedContent ==
    << L(<<"# systemd-resolved.conf (Reset by KaliDNS)">>),
       L(<<"[Resolve]">>),
       L(<<"#DNS=">>),
       L(<<"#FallbackDNS=">>),
       L(<<"#DNSOverTLS=no">>) >>

\* setup_doh: config
DohProxyContent(provider) ==
    << L(<<"# Generated by KaliDNS Tool - DoH Mode (", provider, ")">>),
       L(<<"listen_addresses = ['", DOH_PROVIDERS[provider].listen, "']">>),
       L(<<"max_clients = 250">>),
       L(<<"ipv4_servers = true">>),
       L(<<"ipv6_servers = false">>),
       L(<<"dnscrypt_servers = false">>),
       L(<<"doh_servers = true">>),
       L(<<"require_dnssec = false">>),
       L(<<"require_nolog = true">>),
       L(<<"require_nofilter = true">>),
       L(<<"force_tcp = false">>),
       L(<<"timeout = 5000">>),
       L(<<"keepalive = 30">>),
       L(<<"log_level = 2">>),
       L(<<"use_syslog = false">>),
       L(<<"cache = true">>),
       L(<<"cache_size = 4096">>),
       L(<<"cache_min_ttl = 2400">>),
       L(<<"cache_max_ttl = 86400">>),
       L(<<"cache_neg_min_ttl = 60">>),
       L(<<"cache_neg_max_ttl = 600">>),
       L(<<>>),
       L(<<"[static]">>),
       L(<<"[static.'", DOH_PROVIDERS[provider].server_name, "']">>),
       L(<<"stamp = '", DOH_PROVIDERS[provider].stamp, "'">>) >>

\* "needle in f.read()" for a needle that is one chunk of a line
HasChunk(content, needles) ==
    \E i \in 1..Len(content) :
        \E j \in 1..Len(content[i].txt) : content[i].txt[j] \in needles

\* print_dot_status: "DNSOverTLS=yes" in f.read()  (a substring test: a
\* commented-out "#DNSOverTLS=yes" matches too)
HasDotFlag(content) == HasChunk(content, {"DNSOverTLS=yes", "#DNSOverTLS=yes"})

\* print_dot_status: 'doh_servers = true' in content
HasDohFlag(content) == HasChunk(content, {"doh_servers = true"})

(***************************************************************************)
(* The file system.  fs = [files, tmp, backups, dirs, immutable,           *)
(* logWritable]:                                                           *)
(*   files[p]   the file at path p, [exists, content, mtime];              *)
(*   tmp[p]     the sibling file "<p>.tmp";                                *)
(*   backups    the files "<of>.backup_<ts>", [of, ts, content, mtime];    *)
(*   dirs       the directories that exist;                                *)
(*   immutable  the chattr +i attribute of the file at RESOLV_CONF.        *)
(*   logWritable  whether LOG_DIR can be created and LOG_FILE appended to. *)
(***************************************************************************)
Absent == [exists |-> FALSE, content |-> <<>>, mtime |-> 0]

FileOf(content, mtime) == [exists |-> TRUE, content |-> content, mtime |-> mtime]

LogEntry(ts, action, details) == [ts |-> ts, action |-> action, details |-> details]

\* (mutation: the log file is opened with 'w')
log_action_Truncating(log, f, entry) ==
    IF f.logWritable THEN <<entry>> ELSE log

\* log_action: the entry is appended to LOG_FILE; any exception (the log
\* directory cannot be created, the file cannot be opened or written) is
\* swallowed and nothing is written
log_action(log, f, entry) ==
    IF f.logWritable THEN Append(log, entry) ELSE log

\* the log_action calls of one step, in order
RECURSIVE log_actions(_, _, _)
log_actions(log, f, entries) ==
    IF entries = <<>> THEN log
    ELSE log_actions(log_action(log, f, Head(entries)), f, Tail(entries))

\* atomic_write, statement by statement.  Each step yields [fs, ok].
\* (mutation: the target itself is opened for writing)
AwOpenInPlace(fs, filepath, now, fault) ==
    IF fault \/ dirname(filepath) \notin fs.dirs
    THEN [fs |-> fs, ok |-> FALSE]
    ELSE [fs |-> [fs EXCEPT !.files[filepath] = FileOf(<<>>, now),
                            !.tmp[filepath] = FileOf(<<>>, now)],
          ok |-> TRUE]

\* open(temp_file, 'w'): creates or truncates "<filepath>.tmp"
AwOpen(fs, filepath, now, fault) ==
    IF fault \/ dirname(filepath) \notin fs.dirs
    THEN [fs |-> fs, ok |-> FALSE]
    ELSE [fs |-> [fs EXCEPT !.tmp[filepath] = FileOf(<<>>, now)], ok |-> TRUE]

\* f.write(content); f.flush(): on an error the first k lines were written
AwWriteFlush(fs, filepath, content, now, fault, k) ==
    IF fault
    THEN [fs |-> [fs EXCEPT !.tmp[filepath] = FileOf(SubSeq(content, 1, k), now)],
          ok |-> FALSE]
    ELSE [fs |-> [fs EXCEPT !.tmp[filepath] = FileOf(content, now)], ok |-> TRUE]

\* os.fsync(f.fileno())
AwFsync(fs, filepath, fault) == [fs |-> fs, ok |-> ~fault]

\* (mutation: the temporary file is copied, not renamed)
AwRenameCopy(fs, filepath, fault) ==
    IF fault \/ (filepath = RESOLV_CONF /\ fs.immutable)
    THEN [fs |-> fs, ok |-> FALSE]
    ELSE [fs |-> [fs EXCEPT !.files[filepath] = fs.tmp[filepath]], ok |-> TRUE]

\* os.rename(temp_file, filepath): EPERM when the target is immutable
AwRename(fs, filepath, fault) ==
    IF fault \/ (filepath = RESOLV_CONF /\ fs.immutable)
    THEN [fs |-> fs, ok |-> FALSE]
    ELSE [fs |-> [fs EXCEPT !.files[filepath] = fs.tmp[filepath],
                            !.tmp[filepath] = Absent],
          ok |-> TRUE]

\* (mutation: the except clause leaves the temporary file)
AwExceptNoCleanup(fs, filepath) == fs

\* except Exception: if os.path.exists(temp_file): os.remove(temp_file)
AwExcept(fs, filepath) == [fs EXCEPT !.tmp[filepath] = Absent]

\* log_action("ERROR", f"Atomic write failed for {filepath}: {e}")
AwErrorEntry(now, filepath) ==
    LogEntry(now, "ERROR", <<"Atomic write failed for ", filepath>>)

AwFaults == {"none", "open", "write", "fsync", "rename"}

\* (mutation: the new lines are appended to the lines of the target)
atomic_write_Patch(fs, filepath, content, now, failAt) ==
    IF failAt = "none" /\ dirname(filepath) \in fs.dirs
    THEN [fs |-> [fs EXCEPT !.files[filepath] =
                     FileOf(fs.files[filepath].content \o content, now)],
          ok |-> TRUE, log |-> <<>>]
    ELSE [fs |-> fs, ok |-> FALSE, log |-> <<AwErrorEntry(now, filepath)>>]

\* atomic_write as one call: [fs, ok, log] with log the entries it appends
atomic_write(fs, filepath, content, now, failAt) ==
    LET o == AwOpen(fs, filepath, now, failAt = "open")
        w == AwWriteFlush(o.fs, filepath, content, now, failAt = "write", 0)
        s == AwFsync(w.fs, filepath, failAt = "fsync")
        r == AwRename(s.fs, filepath, failAt = "rename")
        failed == IF ~o.ok THEN o.fs ELSE IF ~w.ok THEN w.fs
                  ELSE IF ~s.ok THEN s.fs ELSE r.fs
    IN  IF o.ok /\ w.ok /\ s.ok /\ r.ok
        THEN [fs |-> r.fs, ok |-> TRUE, log |-> <<>>]
        ELSE [fs |-> AwExcept(failed, filepath), ok |-> FALSE,
              log |-> <<AwErrorEntry(now, filepath)>>]

\* (mutation: the backup name carries no timestamp)
backup_file_OneName(fs, filepath, now, copyOk) ==
    IF fs.files[filepath].exists /\ copyOk
    THEN [fs |-> [fs EXCEPT !.backups =
                    {b \in @ : b.of # filepath}
                    \cup {[of |-> filepath, ts |-> 0,
                           content |-> fs.files[filepath].content,
                           mtime |-> fs.files[filepath].mtime]}],
          log |-> <<LogEntry(now, "BACKUP",
                             <<"Created backup: ", filepath, ".backup_">>)>>]
    ELSE [fs |-> fs, log |-> <<>>]

\* backup_file: shutil.copy2 keeps the content and the modification time;
\* a backup of the same name (same second) is overwritten
backup_file(fs, filepath, now, copyOk) ==
    IF fs.files[filepath].exists /\ copyOk
    THEN [fs |-> [fs EXCEPT !.backups =
                    {b \in @ : ~(b.of = filepath /\ b.ts = now)}
                    \cup {[of |-> filepath, ts |-> now,
                           content |-> fs.files[filepath].content,
                           mtime |-> fs.files[filepath].mtime]}],
          log |-> <<LogEntry(now, "BACKUP",
                             <<"Created backup: ", filepath, ".backup_">>)>>]
    ELSE [fs |-> fs, log |-> <<>>]

\* _find_latest_backup: the candidates of greatest mtime (max() keeps the
\* first of equal keys in os.listdir order, which is arbitrary)
find_latest_backup(fs, filepath) ==
    LET cands == {b \in fs.backups : b.of = filepath}
    IN  IF dirname(filepath) \notin fs.dirs THEN {}
        ELSE {b \in cands : \A c \in cands : c.mtime <= b.mtime}

\* unlock_file / lock_file: chattr -i / +i on RESOLV_CONF; chattr fails when
\* the file is missing or the filesystem has no such attribute
unlock_file(fs, chattr) ==
    IF chattr /\ fs.files[RESOLV_CONF].exists
    THEN [fs EXCEPT !.immutable = FALSE] ELSE fs

lock_file(fs, chattr) ==
    IF chattr /\ fs.files[RESOLV_CONF].exists
    THEN [fs EXCEPT !.immutable = TRUE] ELSE fs

\* safe_restart_service: [svc, ok, dt, started] for the outcomes of the two
\* systemctl calls: "ok", "fail" (non-zero exit), "timeout"
CmdOutcomes == {"ok", "fail", "timeout"}

safe_restart_service(svc, name, stopOut, startOut) ==
    LET stopped == IF stopOut = "ok" THEN [svc EXCEPT ![name].active = FALSE]
                   ELSE svc
    IN  IF stopOut = "timeout"
        THEN [svc |-> svc, ok |-> FALSE, dt |-> StopTimeout, started |-> FALSE]
        ELSE IF startOut = "ok"
        THEN [svc |-> [stopped EXCEPT ![name].active = TRUE], ok |-> TRUE,
              dt |-> SettleSeconds, started |-> TRUE]
        ELSE IF startOut = "fail"
        THEN [svc |-> [stopped EXCEPT ![name].active = FALSE], ok |-> FALSE,
              dt |-> SettleSeconds, started |-> TRUE]
        ELSE [svc |-> stopped, ok |-> FALSE,
              dt |-> SettleSeconds + StartTimeout, started |-> TRUE]

\* get_current_dns: the second word of every line starting with 'nameserver'
RECURSIVE Words(_, _, _)
Words(txt, i, word) ==
    IF i > Len(txt) THEN (IF word = <<>> THEN <<>> ELSE <<word>>)
    ELSE IF txt[i] \in WS
    THEN (IF word = <<>> THEN <<>> ELSE <<word>>) \o Words(txt, i + 1, <<>>)
    ELSE Words(txt, i + 1, Append(word, txt[i]))

RECURSIVE NameserversOf(_)
NameserversOf(content) ==
    IF content = <<>> THEN <<>>
    ELSE LET line  == Head(content)
             parts == Words(line.txt, 1, <<>>)
         IN  (IF line.txt # <<>> /\ line.txt[1] = "nameserver" /\ Len(parts) > 1
              THEN <<parts[2]>> ELSE <<>>) \o NameserversOf(Tail(content))

get_current_dns(fs) ==
    IF ~fs.files[RESOLV_CONF].exists
    THEN << <<"File belum ada (Akan dibuat otomatis)">> >>
    ELSE IF NameserversOf(fs.files[RESOLV_CONF].content) = <<>>
    THEN << <<"(Kosong / Tidak ada nameserver)">> >>
    ELSE NameserversOf(fs.files[RESOLV_CONF].content)

\* (mutation: the lists have to be equal)
verify_dns_change_Exact(fs, expected_ips) ==
    get_current_dns(fs) = expected_ips

\* verify_dns_change: all(ip in current for ip in expected_ips)
verify_dns_change(fs, expected_ips) ==
    \A i \in 1..Len(expected_ips) :
        \E j \in 1..Len(get_current_dns(fs)) :
            get_current_dns(fs)[j] = expected_ips[i]

(***************************************************************************)
(* The mode transitions as call sequences.  An instruction is one call of  *)
(* the transition's body, [op, arg, abort]: abort says that the transition *)
(* returns when the call reports failure.                                  *)
(***************************************************************************)
I(op, arg, abort) == [op |-> op, arg |-> arg, abort |-> abort]

\* (mutation: set_dns locks whether or not the write succeeded)
set_dns_prog_LockAlways ==
    << I("restore_silent", SYSTEMD_RESOLVED_CONF, FALSE),
       I("unlock", RESOLV_CONF, FALSE),
       I("backup", RESOLV_CONF, FALSE),
       I("write", RESOLV_CONF, FALSE),
       I("lock", RESOLV_CONF, FALSE),
       I("flush", "", FALSE),
       I("verify", RESOLV_CONF, TRUE),
       I("probe", "", FALSE) >>

\* set_dns, after validation and log_action
set_dns_prog ==
    << I("restore_silent", SYSTEMD_RESOLVED_CONF, FALSE),
       I("unlock", RESOLV_CONF, FALSE),
       I("backup", RESOLV_CONF, FALSE),
       I("write", RESOLV_CONF, TRUE),
       I("lock", RESOLV_CONF, FALSE),
       I("flush", "", FALSE),
       I("verify", RESOLV_CONF, TRUE),
       I("probe", "", FALSE) >>

\* (mutation: setup_dot goes on after a failed restart)
setup_dot_prog_IgnoreRestart ==
    << I("backup", SYSTEMD_RESOLVED_CONF, FALSE),
       I("write", SYSTEMD_RESOLVED_CONF, TRUE),
       I("enable", RESOLVED, FALSE),
       I("restart", RESOLVED, FALSE),
       I("unlock", RESOLV_CONF, FALSE),
       I("write", RESOLV_CONF, TRUE),
       I("lock", RESOLV_CONF, FALSE),
       I("flush", "", FALSE),
       I("probe", "", FALSE) >>

\* setup_dot, after the existence check and the provider selection
setup_dot_prog ==
    << I("backup", SYSTEMD_RESOLVED_CONF, FALSE),
       I("write", SYSTEMD_RESOLVED_CONF, TRUE),
       I("enable", RESOLVED, FALSE),
       I("restart", RESOLVED, TRUE),
       I("unlock", RESOLV_CONF, FALSE),
       I("write", RESOLV_CONF, TRUE),
       I("lock", RESOLV_CONF, FALSE),
       I("flush", "", FALSE),
       I("probe", "", FALSE) >>

\* (mutation: setup_doh goes on after a failed restart)
setup_doh_prog_IgnoreRestart ==
    << I("makedirs", DNSCRYPT_PROXY_CONF, FALSE),
       I("backup", DNSCRYPT_PROXY_CONF, FALSE),
       I("write", DNSCRYPT_PROXY_CONF, TRUE),
       I("stop_disable", RESOLVED, FALSE),
       I("restart", DNSCRYPT, FALSE),
       I("unlock", RESOLV_CONF, FALSE),
       I("write", RESOLV_CONF, TRUE),
       I("lock", RESOLV_CONF, FALSE),
       I("flush", "", FALSE),
       I("probe", "", FALSE) >>

\* setup_doh, after the provider check and the install check
setup_doh_prog ==
    << I("makedirs", DNSCRYPT_PROXY_CONF, FALSE),
       I("backup", DNSCRYPT_PROXY_CONF, FALSE),
       I("write", DNSCRYPT_PROXY_CONF, TRUE),
       I("stop_disable", RESOLVED, FALSE),
       I("restart", DNSCRYPT, TRUE),
       I("unlock", RESOLV_CONF, FALSE),
       I("write", RESOLV_CONF, TRUE),
       I("lock", RESOLV_CONF, FALSE),
       I("flush", "", FALSE),
       I("probe", "", FALSE) >>

\* restore_default, after the confirmation and log_action
restore_default_prog ==
    << I("write", SYSTEMD_RESOLVED_CONF, FALSE),
       I("restart", RESOLVED, FALSE),
       I("unlock", RESOLV_CONF, FALSE),
       I("remove", RESOLV_CONF, FALSE),
       I("restart", NETWORKMANAGER, FALSE),
       I("flush", "", FALSE) >>

\* (mutation: setup_dot stamps the resolver file)
ContentForStamped(fn, provider, valid_ips, filepath, at) ==
    CASE fn = "set_dns" -> StandardResolvContent(provider, valid_ips, at)
      [] fn = "setup_dot" /\ filepath = SYSTEMD_RESOLVED_CONF ->
            DotResolvedContent(provider)
      [] fn = "setup_dot" /\ filepath = RESOLV_CONF ->
            << [txt |-> <<"# Updated at: ">>, t |-> at] >> \o DotResolvContent
      [] fn = "setup_doh" /\ filepath = DNSCRYPT_PROXY_CONF ->
            DohProxyContent(provider)
      [] fn = "setup_doh" /\ filepath = RESOLV_CONF -> DohResolvContent(provider)
      [] OTHER -> DefaultResolvedContent

\* (mutation: the service configs are always those of Cloudflare)
ContentFor_FixedProvider(fn, provider, valid_ips, filepath, at) ==
    CASE fn = "set_dns" -> StandardResolvContent(provider, valid_ips, at)
      [] fn = "setup_dot" /\ filepath = SYSTEMD_RESOLVED_CONF ->
            DotResolvedContent("Cloudflare")
      [] fn = "setup_dot" /\ filepath = RESOLV_CONF -> DotResolvContent
      [] fn = "setup_doh" /\ filepath = DNSCRYPT_PROXY_CONF ->
            DohProxyContent("Cloudflare")
      [] fn = "setup_doh" /\ filepath = RESOLV_CONF -> DohResolvContent(provider)
      [] OTHER -> DefaultResolvedContent

\* the content a transition writes to a path
ContentFor(fn, provider, valid_ips, filepath, at) ==
    CASE fn = "set_dns" -> StandardResolvContent(provider, valid_ips, at)
      [] fn = "setup_dot" /\ filepath = SYSTEMD_RESOLVED_CONF ->
            DotResolvedContent(provider)
      [] fn = "setup_dot" /\ filepath = RESOLV_CONF -> DotResolvContent
      [] fn = "setup_doh" /\ filepath = DNSCRYPT_PROXY_CONF ->
            DohProxyContent(provider)
      [] fn = "setup_doh" /\ filepath = RESOLV_CONF -> DohResolvContent(provider)
      [] OTHER -> DefaultResolvedContent

\* (mutation: invalid entries are kept as they were typed)
RECURSIVE ValidIpsKeepInvalid(_)
ValidIpsKeepInvalid(nameservers) ==
    IF nameservers = <<>> THEN <<>>
    ELSE <<IF validate_ip(Head(nameservers)) # None
           THEN validate_ip(Head(nameservers)) ELSE Head(nameservers)>>
         \o ValidIpsKeepInvalid(Tail(nameservers))

\* set_dns: the validation loop
RECURSIVE ValidIps(_)
ValidIps(nameservers) ==
    IF nameservers = <<>> THEN <<>>
    ELSE (IF validate_ip(Head(nameservers)) # None
          THEN <<validate_ip(Head(nameservers))>> ELSE <<>>)
         \o ValidIps(Tail(nameservers))

\* print_dot_status: the two statuses it prints
DotActive(fs) ==
    /\ fs.files[SYSTEMD_RESOLVED_CONF].exists
    /\ HasDotFlag(fs.files[SYSTEMD_RESOLVED_CONF].content)

DohActive(fs, svc) ==
    /\ fs.files[DNSCRYPT_PROXY_CONF].exists
    /\ HasDohFlag(fs.files[DNSCRYPT_PROXY_CONF].content)
    /\ svc[DNSCRYPT].active

(***************************************************************************)
(* The backup files as directory entries (SpecBackup).  A listing maps a   *)
(* directory to its entries, a function from file names (strings as        *)
(* tuples of characters) to [kind, content, mtime, born]: kind is "file"   *)
(* or "dir", born the time the entry was created (history, not seen by     *)
(* the code).  A path is [dir, base].                                      *)
(***************************************************************************)
N_RESOLV == <<"r", "e", "s", "o", "l", "v", ".", "c", "o", "n", "f">>
N_RESOLVED == <<"r", "e", "s", "o", "l", "v", "e", "d", ".", "c", "o", "n", "f">>
N_OTHER == <<"o", "t", "h", "e", "r", ".", "c", "o", "n", "f">>
BACKUP_MARK == <<".", "b", "a", "c", "k", "u", "p", "_">>

P_RESOLV == [dir |-> "/etc", base |-> N_RESOLV]
P_RESOLVED == [dir |-> "/etc/systemd", base |-> N_RESOLVED]
P_MISSING == [dir |-> "/nonexistent/dir", base |-> N_RESOLVED]

\* str.startswith and the substring test "needle in s"
startswith(str, prefix) ==
    Len(prefix) <= Len(str) /\ SubSeq(str, 1, Len(prefix)) = prefix

contains(str, needle) ==
    \E i \in 1..(Len(str) - Len(needle) + 1) :
        SubSeq(str, i, i + Len(needle) - 1) = needle

\* strftime("%Y%m%d_%H%M%S"): one string per second of the clock
Timestamp(t) == FromInt(t, 10)

DaySeconds == 86400
DefaultMaxAgeDays == 7

Entry(kind, content, mtime, born) ==
    [kind |-> kind, content |-> content, mtime |-> mtime, born |-> born]

\* os.path.exists / os.path.isfile of dir/name
BkExists(ls, dir, name) == dir \in DOMAIN ls /\ name \in DOMAIN ls[dir]

BkIsFile(ls, dir, name) == BkExists(ls, dir, name) /\ ls[dir][name].kind = "file"

\* backup_file on directory entries: copy2 creates or overwrites
\* "<filepath>.backup_<timestamp>" with the content and mtime of the file
BkBackupFile(ls, filepath, t, copyOk) ==
    IF BkExists(ls, filepath.dir, filepath.base) /\ copyOk
    THEN [ls EXCEPT ![filepath.dir] =
             ((filepath.base \o BACKUP_MARK \o Timestamp(t)) :>
                  Entry("file", ls[filepath.dir][filepath.base].content,
                        ls[filepath.dir][filepath.base].mtime, t)) @@ @]
    ELSE ls

\* (mutation: every backup file of the directory is a candidate)
BkFindLatest_AnyBasename(ls, filepath) ==
    LET backups == IF filepath.dir \notin DOMAIN ls THEN {}
                   ELSE {f \in DOMAIN ls[filepath.dir] :
                            /\ contains(f, BACKUP_MARK)
                            /\ BkIsFile(ls, filepath.dir, f)}
    IN  IF backups = {} THEN {None}
        ELSE {f \in backups :
                 \A g \in backups :
                     ls[filepath.dir][g].mtime <= ls[filepath.dir][f].mtime}

\* _find_latest_backup: the names max() may return; None when the listing
\* fails or has no candidate
BkFindLatest(ls, filepath) ==
    LET backups == IF filepath.dir \notin DOMAIN ls THEN {}
                   ELSE {f \in DOMAIN ls[filepath.dir] :
                            /\ startswith(f, filepath.base \o BACKUP_MARK)
                            /\ BkIsFile(ls, filepath.dir, f)}
    IN  IF backups = {} THEN {None}
        ELSE {f \in backups :
                 \A g \in backups :
                     ls[filepath.dir][g].mtime <= ls[filepath.dir][f].mtime}

\* (mutation: the age test is not strict)
BkExpired_AtThreshold(ls, dir, file, t, max_age_days) ==
    /\ \/ contains(file, N_RESOLV \o BACKUP_MARK)
       \/ contains(file, N_RESOLVED \o BACKUP_MARK)
    /\ BkIsFile(ls, dir, file)
    /\ (t - ls[dir][file].mtime) >= (max_age_days * DaySeconds)

\* cleanup_old_backups: the entries of backup_dir it tries to remove
BkExpired(ls, dir, file, t, max_age_days) ==
    /\ \/ contains(file, N_RESOLV \o BACKUP_MARK)
       \/ contains(file, N_RESOLVED \o BACKUP_MARK)
    /\ BkIsFile(ls, dir, file)
    /\ (t - ls[dir][file].mtime) > (max_age_days * DaySeconds)

\* cleanup_old_backups: lists dirname(RESOLV_CONF); os.remove fails for the
\* entries in stuck, which are skipped
cleanup_old_backups(ls, t, max_age_days, stuck) ==
    LET backup_dir == P_RESOLV.dir
        cleaned == {f \in DOMAIN ls[backup_dir] :
                       BkExpired(ls, backup_dir, f, t, max_age_days)} \ stuck
    IN  [ls |-> [ls EXCEPT ![backup_dir] =
                    [f \in (DOMAIN @) \ cleaned |-> @[f]]],
         cleaned |-> Cardinality(cleaned)]

(***************************************************************************)
(* State.                                                                  *)
(*   fs, svc, installed, chattr, log, now   the host: files, services      *)
(*       ([active, enabled] per unit), whether dnscrypt-proxy is           *)
(*       installed, whether the filesystem has the immutable attribute,    *)
(*       the audit log, the clock in seconds;                              *)
(*   prog, cur    the calls the running transition still has to make and   *)
(*       its arguments and locals [fn, provider, input, valid_ips,         *)
(*       result] (input: the address list, or the answer to the prompt);   *)
(*   pre, trace   history: fs when the transition was called, and the      *)
(*       calls it has made so far, [e, arg, ok, detail, before] (detail:   *)
(*       the outcomes of the systemctl calls of a restart and whether      *)
(*       start was issued; before: the file at arg when the call was       *)
(*       made);                                                            *)
(*   hist         history: the transitions that have returned, [fn,        *)
(*       provider, valid_ips, result, resolv] (resolv: the resolver file   *)
(*       they left);                                                       *)
(*   ops, faults  the transitions called and the failures injected;        *)
(*   lim          the bounds of the run, [ops, faults];                    *)
(*   aw, seen     SpecAW: the position inside atomic_write, and what the   *)
(*       reader has read;                                                  *)
(*   bk           SpecBackup: the listing ls, the last call [op, arg,      *)
(*       max_age_days, result, before, at] (before: the listing when it    *)
(*       was made) and the number n of calls made.                         *)
(***************************************************************************)
VARIABLES fs, svc, installed, chattr, log, now, prog, cur, pre, trace, hist,
          ops, faults, lim, aw, seen, bk

vars == <<fs, svc, installed, chattr, log, now, prog, cur, pre, trace, hist,
          ops, faults, lim, aw, seen, bk>>

\* bounds of the model: Spec runs MaxOps transitions with MaxFaults injected
\* failures, SpecLong runs MaxOpsLong transitions without failures
MaxOps == 2
MaxFaults == 1
MaxOpsLong == 3

IP_8_8_8_8 == <<"8", ".", "8", ".", "8", ".", "8">>
IP_8_8_4_4 == <<"8", ".", "8", ".", "4", ".", "4">>
IP_1_1_1_1_PADDED == <<" ", "1", ".", "1", ".", "1", ".", "1", " ">>
NOT_AN_IP == <<"n", "o", "t", "-", "a", "n", "-", "i", "p">>
IP_ROUTER == <<"1", "9", "2", ".", "1", "6", "8", ".", "1", ".", "1">>

\* the calls the menu and the command line make
StdInputs ==
    { [ns |-> <<IP_8_8_8_8, IP_8_8_4_4>>, name |-> "Google"],
      [ns |-> <<IP_1_1_1_1_PADDED, NOT_AN_IP>>, name |-> "Custom"],
      [ns |-> <<NOT_AN_IP>>, name |-> "Custom"],
      [ns |-> <<>>, name |-> "Custom"] }
DotInputs == {"Cloudflare", "OpenDNS"}
DohInputs == {"Cloudflare", "Quad9"}
Answers == {<<"y">>, <<"n">>}
RestoreAnswers == Answers \cup {<<>>, <<" ", "Y", " ">>, <<"y", "e", "s">>}

\* the host before the tool first runs
DhcpResolvContent ==
    << L(<<"# Generated by NetworkManager">>), NameserverLine(IP_ROUTER) >>

PackagedResolvedContent ==
    << L(<<"[Resolve]">>), L(<<"#DNS=">>), L(<<"#FallbackDNS=">>),
       L(<<"#Domains=">>), L(<<"#DNSSEC=no">>), L(<<"#DNSOverTLS=no">>) >>

PackagedProxyContent == << L(<<"# dnscrypt-proxy packaged configuration">>) >>

InitFs ==
    [files |-> [p \in Paths |->
                    CASE p = RESOLV_CONF -> FileOf(DhcpResolvContent, 0)
                      [] p = SYSTEMD_RESOLVED_CONF ->
                            FileOf(PackagedResolvedContent, 0)
                      [] OTHER -> Absent],
     tmp |-> [p \in Paths |-> Absent],
     backups |-> {},
     dirs |-> {"/etc", "/etc/systemd"},
     immutable |-> FALSE,
     logWritable |-> TRUE]

InitSvc ==
    [s \in Services |->
        IF s = DNSCRYPT THEN [active |-> FALSE, enabled |-> FALSE]
        ELSE [active |-> TRUE, enabled |-> TRUE]]

NoCall == [fn |-> "", provider |-> "", input |-> <<>>, valid_ips |-> <<>>,
           result |-> ""]
NoPrev == [filepath |-> "", content |-> <<>>, result |-> FALSE, after |-> Absent]
NoBkCall == [op |-> "", arg |-> P_RESOLV, max_age_days |-> 0, result |-> None,
             before |-> <<>>, at |-> 0]
BkIdle == [ls |-> <<>>, call |-> NoBkCall, n |-> 0]
AwIdle == [pc |-> "idle", filepath |-> "", content |-> <<>>, failAt |-> "none",
           k |-> 0, result |-> FALSE, failed |-> "none", old |-> Absent,
           read |-> FALSE, calls |-> 0, prev |-> NoPrev]

InitHost ==
    /\ fs = InitFs
    /\ svc = InitSvc
    /\ installed = FALSE
    /\ chattr \in BOOLEAN
    /\ log = <<>>
    /\ now = 1
    /\ prog = <<>>
    /\ cur = NoCall
    /\ pre = InitFs
    /\ trace = <<>>
    /\ hist = <<>>
    /\ ops = 0
    /\ faults = 0
    /\ aw = AwIdle
    /\ seen = Absent
    /\ bk = BkIdle

Init == InitHost /\ lim = [ops |-> MaxOps, faults |-> MaxFaults]

InitLong == InitHost /\ lim = [ops |-> MaxOpsLong, faults |-> 0]

(***************************************************************************)
(* Calls of the four transitions.                                          *)
(***************************************************************************)
NoDetail == [stop |-> "", start |-> "", started |-> FALSE]

Ev(e, arg, ok, detail) ==
    [e |-> e, arg |-> arg, ok |-> ok, detail |-> detail,
     before |-> IF arg \in Paths THEN fs.files[arg] ELSE Absent]

\* a failure is injected only while the budget lasts
Inject(isFault) ==
    /\ isFault => faults < lim.faults
    /\ faults' = IF isFault THEN faults + 1 ELSE faults

Call(fn, provider, input, valid_ips, result, steps, entries) ==
    /\ ops' = ops + 1
    /\ cur' = [fn |-> fn, provider |-> provider, input |-> input,
               valid_ips |-> valid_ips, result |-> result]
    /\ prog' = steps
    /\ pre' = fs
    /\ trace' = <<>>
    /\ hist' = IF cur = NoCall THEN hist
               ELSE Append(hist, [fn |-> cur.fn, provider |-> cur.provider,
                                  valid_ips |-> cur.valid_ips,
                                  result |-> cur.result,
                                  resolv |-> fs.files[RESOLV_CONF]])
    /\ log' = log_actions(log, fs, entries)

\* set_dns(nameservers, provider_name)
SetDns ==
    /\ prog = <<>> /\ ops < lim.ops
    /\ \E in \in StdInputs :
        LET valid_ips == ValidIps(in.ns)
        IN  /\ IF valid_ips = <<>>
               THEN Call("set_dns", in.name, in.ns, valid_ips, "rejected", <<>>,
                         <<>>)
               ELSE Call("set_dns", in.name, in.ns, valid_ips, "running",
                         set_dns_prog,
                         <<LogEntry(now, "SET_DNS",
                                    <<"Provider: ", in.name, ", IPs: ">>
                                    \o Join(valid_ips, ", "))>>)
            /\ UNCHANGED <<fs, svc, installed, chattr, now, faults, lim, aw, seen,
                           bk>>

\* setup_dot(provider): an unknown provider leaves dns_ip unbound, and the
\* f-string raises UnboundLocalError
SetupDotOf(providers) ==
    /\ prog = <<>> /\ ops < lim.ops
    /\ \E provider \in providers :
        /\ Call("setup_dot", provider, <<>>, <<>>,
                IF ~fs.files[SYSTEMD_RESOLVED_CONF].exists THEN "rejected"
                ELSE IF provider \notin DotProviders THEN "crashed"
                ELSE "running",
                IF fs.files[SYSTEMD_RESOLVED_CONF].exists
                   /\ provider \in DotProviders
                THEN setup_dot_prog ELSE <<>>,
                <<LogEntry(now, "SETUP_DOT", <<"Provider: ", provider>>)>>)
        /\ UNCHANGED <<fs, svc, installed, chattr, now, faults, lim, aw, seen,
                           bk>>

SetupDot == SetupDotOf(DotInputs)

\* confirm.strip().lower() != 'y'
Lower(c) == IF c = "Y" THEN "y" ELSE IF c = "N" THEN "n" ELSE c
\* (mutation: every answer but 'n' confirms)
Confirmed_UnlessNo(answer) ==
    [i \in 1..Len(strip(answer)) |-> Lower(strip(answer)[i])] # <<"n">>

Confirmed(answer) ==
    [i \in 1..Len(strip(answer)) |-> Lower(strip(answer)[i])] = <<"y">>

\* (mutation: the package is installed without waiting for the answer)
SetupDohOf_InstallUnasked(providers) ==
    /\ prog = <<>> /\ ops < lim.ops
    /\ \E provider \in providers, answer \in Answers, aptOk \in BOOLEAN :
        LET known   == provider \in DOMAIN DOH_PROVIDERS
            install == known /\ ~installed
            go      == known /\ (installed \/ (install /\ aptOk))
        IN  /\ installed => (answer = <<"y">> /\ aptOk)
            /\ ~install => aptOk
            /\ Inject(~aptOk)
            /\ Call("setup_doh", provider, answer, <<>>,
                    IF go THEN "running" ELSE "rejected",
                    IF go THEN setup_doh_prog ELSE <<>>,
                    <<LogEntry(now, "SETUP_DOH", <<"Provider: ", provider>>)>>)
            /\ installed' = (installed \/ (install /\ aptOk))
            /\ fs' = IF install /\ aptOk
                     THEN [fs EXCEPT
                             !.dirs = @ \cup {dirname(DNSCRYPT_PROXY_CONF)},
                             !.files[DNSCRYPT_PROXY_CONF] =
                                 FileOf(PackagedProxyContent, now)]
                     ELSE fs
            /\ UNCHANGED <<svc, chattr, now, lim, aw, seen, bk>>

\* setup_doh(provider): the provider check, then the install check; apt
\* installs the package with its packaged configuration
SetupDohOf(providers) ==
    /\ prog = <<>> /\ ops < lim.ops
    /\ \E provider \in providers, answer \in Answers, aptOk \in BOOLEAN :
        LET known   == provider \in DOMAIN DOH_PROVIDERS
            install == known /\ ~installed /\ Confirmed(answer)
            go      == known /\ (installed \/ (install /\ aptOk))
        IN  /\ installed => (answer = <<"y">> /\ aptOk)
            /\ ~install => aptOk
            /\ Inject(~aptOk)
            /\ Call("setup_doh", provider, answer, <<>>,
                    IF go THEN "running" ELSE "rejected",
                    IF go THEN setup_doh_prog ELSE <<>>,
                    <<LogEntry(now, "SETUP_DOH", <<"Provider: ", provider>>)>>)
            /\ installed' = (installed \/ (install /\ aptOk))
            /\ fs' = IF install /\ aptOk
                     THEN [fs EXCEPT
                             !.dirs = @ \cup {dirname(DNSCRYPT_PROXY_CONF)},
                             !.files[DNSCRYPT_PROXY_CONF] =
                                 FileOf(PackagedProxyContent, now)]
                     ELSE fs
            /\ UNCHANGED <<svc, chattr, now, lim, aw, seen, bk>>

SetupDoh == SetupDohOf(DohInputs)

\* restore_default(): nothing happens without the confirmation
RestoreDefault ==
    /\ prog = <<>> /\ ops < lim.ops
    /\ \E answer \in RestoreAnswers :
        /\ IF Confirmed(answer)
           THEN Call("restore_default", "", answer, <<>>, "running",
                     restore_default_prog,
                     <<LogEntry(now, "RESTORE",
                                <<"Restoring to default configuration">>)>>)
           ELSE Call("restore_default", "", answer, <<>>, "rejected", <<>>, <<>>)
        /\ UNCHANGED <<fs, svc, installed, chattr, now, faults, lim, aw, seen,
                           bk>>

(***************************************************************************)
(* The calls a running transition makes, one action per callee.            *)
(***************************************************************************)
Ins == Head(prog)

At(op) == prog # <<>> /\ Ins.op = op

\* the call returned: go on with the next call, or return from the transition
\* (mutation: a failed call is made again)
ReturnWith_Retry(ok, crashed, detail) ==
    /\ prog' = IF crashed THEN <<>> ELSE IF ~ok THEN prog ELSE Tail(prog)
    /\ cur' = [cur EXCEPT !.result =
                  IF crashed THEN "crashed"
                  ELSE IF ~ok THEN "running"
                  ELSE IF Tail(prog) = <<>> THEN "done"
                  ELSE "running"]
    /\ trace' = Append(trace, Ev(Ins.op, Ins.arg, ok /\ ~crashed, detail))
    /\ UNCHANGED <<pre, hist, ops, lim, aw, seen, bk, chattr, installed>>

ReturnWith(ok, crashed, detail) ==
    /\ prog' = IF crashed \/ (~ok /\ Ins.abort) THEN <<>> ELSE Tail(prog)
    /\ cur' = [cur EXCEPT !.result =
                  IF crashed THEN "crashed"
                  ELSE IF ~ok /\ Ins.abort THEN "aborted"
                  ELSE IF Tail(prog) = <<>> THEN "done"
                  ELSE "running"]
    /\ trace' = Append(trace, Ev(Ins.op, Ins.arg, ok /\ ~crashed, detail))
    /\ UNCHANGED <<pre, hist, ops, lim, aw, seen, bk, chattr, installed>>

Return(ok, crashed) == ReturnWith(ok, crashed, NoDetail)

\* restore_systemd_config_silent: shutil.copy2(latest, ...) raises on an
\* error, and the exception leaves set_dns; the restart's result is ignored
restore_systemd_config_silent(f, s, latest, copyOk, stopOut, startOut) ==
    LET r == safe_restart_service(s, RESOLVED, stopOut, startOut)
    IN  IF ~copyOk
        THEN [fs |-> f, svc |-> s, dt |-> 0, raised |-> TRUE, restarted |-> FALSE]
        ELSE [fs |-> [f EXCEPT !.files[SYSTEMD_RESOLVED_CONF] =
                         FileOf(latest.content, latest.mtime)],
              svc |-> r.svc, dt |-> r.dt, raised |-> FALSE,
              restarted |-> r.started]

DoRestoreSilent ==
    /\ At("restore_silent")
    /\ IF find_latest_backup(fs, SYSTEMD_RESOLVED_CONF) = {}
       THEN /\ Return(FALSE, FALSE)
            /\ UNCHANGED <<fs, svc, now, faults, log>>
       ELSE \E latest \in find_latest_backup(fs, SYSTEMD_RESOLVED_CONF),
               copyOk \in BOOLEAN, stopOut \in CmdOutcomes, startOut \in CmdOutcomes :
               LET r == restore_systemd_config_silent(fs, svc, latest, copyOk,
                                                      stopOut, startOut)
               IN  /\ ~copyOk => (stopOut = "ok" /\ startOut = "ok")
                   /\ stopOut = "timeout" => startOut = "ok"
                   /\ Inject(~copyOk \/ stopOut # "ok" \/ startOut # "ok")
                   /\ fs' = r.fs
                   /\ svc' = r.svc
                   /\ now' = now + r.dt
                   /\ ReturnWith(~r.raised, r.raised,
                                 IF r.raised THEN NoDetail
                                 ELSE [stop |-> stopOut, start |-> startOut,
                                       started |-> r.restarted])
                   /\ UNCHANGED log

DoUnlock ==
    /\ At("unlock")
    /\ fs' = unlock_file(fs, chattr)
    /\ Return(TRUE, FALSE)
    /\ UNCHANGED <<svc, now, faults, log>>

DoLock ==
    /\ At("lock")
    /\ fs' = lock_file(fs, chattr)
    /\ Return(TRUE, FALSE)
    /\ UNCHANGED <<svc, now, faults, log>>

DoBackup ==
    /\ At("backup")
    /\ \E copyOk \in BOOLEAN :
        LET r == backup_file(fs, Ins.arg, now, copyOk)
        IN  /\ ~fs.files[Ins.arg].exists => copyOk
            /\ Inject(~copyOk)
            /\ fs' = r.fs
            /\ log' = log_actions(log, fs, r.log)
            /\ Return(r.log # <<>>, FALSE)
    /\ UNCHANGED <<svc, now>>

DoWrite ==
    /\ At("write")
    /\ \E failAt \in AwFaults :
        LET r == atomic_write(fs, Ins.arg,
                              ContentFor(cur.fn, cur.provider, cur.valid_ips,
                                         Ins.arg, now),
                              now, failAt)
        IN  /\ Inject(failAt # "none")
            /\ fs' = r.fs
            /\ log' = log_actions(log, fs, r.log)
            /\ Return(r.ok, FALSE)
    /\ UNCHANGED <<svc, now>>

\* systemctl enable: the exit status is not looked at
DoEnable ==
    /\ At("enable")
    /\ \E ok \in BOOLEAN :
        /\ Inject(~ok)
        /\ svc' = IF ok THEN [svc EXCEPT ![Ins.arg].enabled = TRUE] ELSE svc
        /\ Return(ok, FALSE)
    /\ UNCHANGED <<fs, now, log>>

\* setup_doh: stop and disable systemd-resolved in one try block; a timeout
\* of stop skips disable
DoStopDisable ==
    /\ At("stop_disable")
    /\ \E stopOut \in CmdOutcomes :
        /\ Inject(stopOut # "ok")
        /\ svc' = CASE stopOut = "ok" ->
                        [svc EXCEPT ![Ins.arg] = [active |-> FALSE, enabled |-> FALSE]]
                    [] stopOut = "fail" -> [svc EXCEPT ![Ins.arg].enabled = FALSE]
                    [] OTHER -> svc
        /\ now' = IF stopOut = "timeout" THEN now + StopTimeout ELSE now
        /\ Return(stopOut = "ok", FALSE)
    /\ UNCHANGED <<fs, log>>

DoRestart ==
    /\ At("restart")
    /\ \E stopOut \in CmdOutcomes, startOut \in CmdOutcomes :
        LET r == safe_restart_service(svc, Ins.arg, stopOut, startOut)
        IN  /\ stopOut = "timeout" => startOut = "ok"
            /\ Inject(stopOut # "ok" \/ startOut # "ok")
            /\ svc' = r.svc
            /\ now' = now + r.dt
            /\ ReturnWith(r.ok, FALSE, [stop |-> stopOut, start |-> startOut,
                                        started |-> r.started])
    /\ UNCHANGED <<fs, log>>

\* restore_default: if os.path.exists(RESOLV_CONF): os.remove(RESOLV_CONF);
\* removing an immutable file raises PermissionError
DoRemove ==
    /\ At("remove")
    /\ fs' = IF fs.files[RESOLV_CONF].exists /\ ~fs.immutable
             THEN [fs EXCEPT !.files[RESOLV_CONF] = Absent]
             ELSE fs
    /\ Return(~fs.immutable, fs.files[RESOLV_CONF].exists /\ fs.immutable)
    /\ UNCHANGED <<svc, now, faults, log>>

\* setup_doh: os.makedirs(conf_dir, exist_ok=True)
DoMakedirs ==
    /\ At("makedirs")
    /\ fs' = [fs EXCEPT !.dirs = @ \cup {dirname(Ins.arg)}]
    /\ Return(TRUE, FALSE)
    /\ UNCHANGED <<svc, now, faults, log>>

\* flush_dns_cache: three commands whose results are ignored, one log entry
DoFlush ==
    /\ At("flush")
    /\ log' = log_action(log, fs,
                         LogEntry(now, "FLUSH", <<"DNS Cache flushed">>))
    /\ Return(TRUE, FALSE)
    /\ UNCHANGED <<fs, svc, now, faults>>

\* verify_dns_change(valid_ips), after time.sleep(1)
DoVerify ==
    /\ At("verify")
    /\ now' = now + VerifySettleSeconds
    /\ log' = IF verify_dns_change(fs, cur.valid_ips) THEN log
              ELSE log_action(log, fs, LogEntry(now + VerifySettleSeconds, "VERIFY_FAIL",
                                        <<"Expected ">> \o Join(cur.valid_ips, ", ")
                                        \o <<", got ">>
                                        \o Join(get_current_dns(fs), ", ")))
    /\ Return(verify_dns_change(fs, cur.valid_ips), FALSE)
    /\ UNCHANGED <<fs, svc, faults>>

\* test_dns_connectivity: how many of the three domains resolve
ProbeDomains == 3

ProbeStatus(n) ==
    IF n = ProbeDomains THEN "EXCELLENT" ELSE IF n > 0 THEN "UNSTABLE"
    ELSE "DISCONNECTED"

DoProbe ==
    /\ At("probe")
    /\ \E n \in 0..ProbeDomains :
        /\ Inject(n # ProbeDomains)
        /\ log' = log_action(log, fs, LogEntry(now, "DNS_CONNECTIVITY",
                                       <<"Status: ", ProbeStatus(n), " (">>
                                       \o FromInt(n, 10) \o <<"/3)">>))
        /\ Return(n = ProbeDomains, FALSE)
    /\ UNCHANGED <<fs, svc, now>>

Next ==
    \/ SetDns \/ SetupDot \/ SetupDoh \/ RestoreDefault
    \/ DoRestoreSilent \/ DoUnlock \/ DoLock \/ DoBackup \/ DoWrite
    \/ DoEnable \/ DoStopDisable \/ DoRestart \/ DoRemove \/ DoMakedirs
    \/ DoFlush \/ DoVerify \/ DoProbe

Spec == Init /\ [][Next]_vars

SpecLong == InitLong /\ [][Next]_vars

(***************************************************************************)
(* SpecLog: the transitions on a host whose audit log may be unwritable    *)
(* (LOG_DIR cannot be created, the disk is full) from the start or from    *)
(* some moment on, or becomes writable at some moment.                     *)
(***************************************************************************)
MaxOpsLog == 1

InitLog ==
    /\ fs \in {InitFs, [InitFs EXCEPT !.logWritable = FALSE]}
    /\ svc = InitSvc
    /\ installed = FALSE
    /\ chattr \in BOOLEAN
    /\ log = <<>>
    /\ now = 1
    /\ prog = <<>>
    /\ cur = NoCall
    /\ pre = fs
    /\ trace = <<>>
    /\ hist = <<>>
    /\ ops = 0
    /\ faults = 0
    /\ lim = [ops |-> MaxOpsLog, faults |-> MaxFaults]
    /\ aw = AwIdle
    /\ seen = Absent
    /\ bk = BkIdle

\* the environment: the log directory becomes writable or unwritable (one of
\* the failures of the run)
LogFlip ==
    /\ Inject(TRUE)
    /\ fs' = [fs EXCEPT !.logWritable = ~@]
    /\ UNCHANGED <<svc, installed, chattr, log, now, prog, cur, pre, trace, hist,
                   ops, lim, aw, seen, bk>>

NextLog == Next \/ LogFlip

SpecLog == InitLog /\ [][NextLog]_vars

(***************************************************************************)
(* SpecProviders: the DoT and DoH transitions with every provider of the   *)
(* two provider tables (and the unknown names of DotInputs and DohInputs), *)
(* without faults, on a host with or without the systemd-resolved config.  *)
(***************************************************************************)
MaxOpsCfg == 2

DotAllInputs == DotProviders \cup DotInputs
DohAllInputs == DOMAIN DOH_PROVIDERS \cup DohInputs

\* a host on which systemd-resolved was never installed
NoResolvedFs == [InitFs EXCEPT !.files[SYSTEMD_RESOLVED_CONF] = Absent]

InitCfg ==
    /\ fs \in {InitFs, NoResolvedFs}
    /\ svc = InitSvc
    /\ installed = FALSE
    /\ chattr \in BOOLEAN
    /\ log = <<>>
    /\ now = 1
    /\ prog = <<>>
    /\ cur = NoCall
    /\ pre = fs
    /\ trace = <<>>
    /\ hist = <<>>
    /\ ops = 0
    /\ faults = 0
    /\ aw = AwIdle
    /\ seen = Absent
    /\ bk = BkIdle
    /\ lim = [ops |-> MaxOpsCfg, faults |-> 0]

SetupDotAny == SetupDotOf(DotAllInputs)
SetupDohAny == SetupDohOf(DohAllInputs)

NextCfg ==
    \/ SetupDotAny \/ SetupDohAny
    \/ DoUnlock \/ DoLock \/ DoBackup \/ DoWrite
    \/ DoEnable \/ DoStopDisable \/ DoRestart \/ DoMakedirs
    \/ DoFlush \/ DoProbe

SpecProviders == InitCfg /\ [][NextCfg]_vars

(***************************************************************************)
(* SpecAW: atomic_write statement by statement, with a reader of the       *)
(* target path.  aw = [pc, filepath, content, failAt, k, result, failed,   *)
(* old, read, calls, prev]: failAt and k are the injected error and the    *)
(* lines a failing write leaves; failed is the statement that raised; old  *)
(* is the target when the call began; read says that the reader has read   *)
(* during the call; prev is the previous call and the target it left.      *)
(***************************************************************************)
MaxCalls == 2

AwPaths == {RESOLV_CONF, BAD_PATH}
AwContents == {DotResolvContent, DohResolvContent("Cloudflare")}
StaleTmpContent == << L(<<"# left by an interrupted run">>) >>

InitAW ==
    /\ \E target \in {Absent, FileOf(DhcpResolvContent, 0)},
          stale \in {Absent, FileOf(StaleTmpContent, 0)},
          immutable \in BOOLEAN :
          /\ immutable => target.exists
          /\ fs = [InitFs EXCEPT !.files[RESOLV_CONF] = target,
                                 !.tmp[RESOLV_CONF] = stale,
                                 !.immutable = immutable]
    /\ svc = InitSvc
    /\ installed = FALSE
    /\ chattr = TRUE
    /\ log = <<>>
    /\ now = 1
    /\ prog = <<>>
    /\ cur = NoCall
    /\ pre = InitFs
    /\ trace = <<>>
    /\ hist = <<>>
    /\ ops = 0
    /\ faults = 0
    /\ lim = [ops |-> 0, faults |-> 0]
    /\ aw = AwIdle
    /\ seen = Absent
    /\ bk = BkIdle

AwUnchanged ==
    UNCHANGED <<svc, installed, chattr, prog, cur, pre, trace, hist, ops, faults,
                lim, bk>>

\* atomic_write(filepath, content) is called, one second after the last call
AwCall ==
    /\ aw.pc \in {"idle", "done"}
    /\ aw.calls < MaxCalls
    /\ \E filepath \in AwPaths, content \in AwContents, failAt \in AwFaults,
          k \in 0..1 :
        /\ failAt # "write" => k = 0
        /\ aw' = [pc |-> "open", filepath |-> filepath, content |-> content,
                  failAt |-> failAt, k |-> k, result |-> FALSE,
                  failed |-> "none", old |-> fs.files[filepath], read |-> FALSE,
                  calls |-> aw.calls + 1,
                  prev |-> [filepath |-> aw.filepath, content |-> aw.content,
                            result |-> aw.result,
                            after |-> IF aw.pc = "done" THEN fs.files[aw.filepath]
                                      ELSE Absent]]
        /\ seen' = fs.files[filepath]
    /\ now' = now + 1
    /\ UNCHANGED <<fs, log>>
    /\ AwUnchanged

AwStep(pc, r, nextPc) ==
    /\ aw.pc = pc
    /\ fs' = r.fs
    /\ aw' = [aw EXCEPT !.pc = IF r.ok THEN nextPc ELSE "except",
                        !.failed = IF r.ok THEN "none" ELSE pc,
                        !.result = r.ok /\ nextPc = "done"]
    /\ UNCHANGED <<log, now, seen>>
    /\ AwUnchanged

AwDoOpen == AwStep("open", AwOpen(fs, aw.filepath, now, aw.failAt = "open"), "write")

AwDoWrite ==
    AwStep("write", AwWriteFlush(fs, aw.filepath, aw.content, now,
                                 aw.failAt = "write", aw.k), "fsync")

AwDoFsync == AwStep("fsync", AwFsync(fs, aw.filepath, aw.failAt = "fsync"), "rename")

AwDoRename ==
    AwStep("rename", AwRename(fs, aw.filepath, aw.failAt = "rename"), "done")

\* the except clause: log, remove the temporary file, return False
AwDoExcept ==
    /\ aw.pc = "except"
    /\ log' = log_action(log, fs, AwErrorEntry(now, aw.filepath))
    /\ fs' = AwExcept(fs, aw.filepath)
    /\ aw' = [aw EXCEPT !.pc = "done", !.result = FALSE]
    /\ UNCHANGED <<now, seen>>
    /\ AwUnchanged

\* another process reads the target path while the call runs
Reader ==
    /\ aw.pc \notin {"idle", "done"}
    /\ ~aw.read
    /\ seen' = fs.files[aw.filepath]
    /\ aw' = [aw EXCEPT !.read = TRUE]
    /\ UNCHANGED <<fs, log, now>>
    /\ AwUnchanged

NextAW ==
    \/ AwCall \/ AwDoOpen \/ AwDoWrite \/ AwDoFsync \/ AwDoRename \/ AwDoExcept
    \/ Reader

SpecAW == InitAW /\ [][NextAW]_vars

(***************************************************************************)
(* SpecBackup: backup_file, _find_latest_backup and cleanup_old_backups    *)
(* called in any order on two directories that hold the tracked files,     *)
(* backups of several ages, a directory named like a backup and files of   *)
(* another name, with the clock advancing between the calls.               *)
(***************************************************************************)
MaxBkCalls == 3

\* the clock when the first call is made, and the ages of the entries then
BkEpoch == 40 * DaySeconds
AgeMonth == 30 * DaySeconds
AgeOver == (DefaultMaxAgeDays * DaySeconds) + 1
AgeAt == DefaultMaxAgeDays * DaySeconds

BkContentA == << L(<<"backup A">>) >>
BkContentB == << L(<<"backup B">>) >>

Aged(kind, content, age) == Entry(kind, content, BkEpoch - age, BkEpoch - age)

\* an optional entry: age -1 leaves it out
Opt(name, content, age) ==
    IF age < 0 THEN <<>> ELSE name :> Aged("file", content, age)

InitBk ==
    /\ \E a \in {-1, AgeOver, AgeAt}, a2 \in {-1, AgeAt},
          b \in {-1, AgeMonth, AgeAt}, c \in {-1, AgeAt, 0} :
          bk = [BkIdle EXCEPT !.ls =
                  ("/etc" :>
                      (Opt(N_RESOLV \o BACKUP_MARK \o <<"A">>, BkContentA, a)
                       @@ Opt(N_RESOLV \o BACKUP_MARK \o <<"B">>, BkContentB, a2)
                       @@ (N_RESOLV :> Aged("file", DhcpResolvContent, AgeMonth))
                       @@ (N_OTHER :> Aged("file", BkContentB, AgeMonth))
                       @@ ((N_RESOLV \o BACKUP_MARK \o <<"D">>) :>
                              Aged("dir", <<>>, AgeMonth))))
                  @@ ("/etc/systemd" :>
                      (Opt(N_RESOLVED \o BACKUP_MARK \o <<"A">>, BkContentA, b)
                       @@ Opt(N_RESOLVED \o BACKUP_MARK \o <<"B">>, BkContentB, c)
                       @@ (N_RESOLVED :>
                              Aged("file", PackagedResolvedContent, AgeMonth))
                       @@ ((N_OTHER \o BACKUP_MARK \o <<"A">>) :>
                              Aged("file", BkContentB, 0))
                       @@ ((N_RESOLVED \o BACKUP_MARK \o <<"D">>) :>
                              Aged("dir", <<>>, 0))))]
    /\ fs = InitFs
    /\ svc = InitSvc
    /\ installed = FALSE
    /\ chattr = TRUE
    /\ log = <<>>
    /\ now = BkEpoch
    /\ prog = <<>>
    /\ cur = NoCall
    /\ pre = InitFs
    /\ trace = <<>>
    /\ hist = <<>>
    /\ ops = 0
    /\ faults = 0
    /\ lim = [ops |-> 0, faults |-> 0]
    /\ aw = AwIdle
    /\ seen = Absent

BkUnchanged ==
    UNCHANGED <<fs, svc, installed, chattr, prog, cur, pre, trace, hist, ops,
                faults, lim, aw, seen>>

BkCalled(op, arg, max_age_days, result, ls) ==
    bk' = [ls |-> ls,
           call |-> [op |-> op, arg |-> arg, max_age_days |-> max_age_days,
                     result |-> result, before |-> bk.ls, at |-> now],
           n |-> bk.n + 1]

\* backup_file(filepath) for a tracked file
BkSnapshot ==
    /\ bk.n < MaxBkCalls
    /\ \E filepath \in {P_RESOLV, P_RESOLVED}, copyOk \in BOOLEAN :
        /\ BkCalled("backup_file", filepath, 0, None,
                    BkBackupFile(bk.ls, filepath, now, copyOk))
        /\ log' = IF copyOk
                  THEN log_action(log, fs, LogEntry(now, "BACKUP",
                                            <<"Created backup: ">>))
                  ELSE log
    /\ UNCHANGED now
    /\ BkUnchanged

\* _find_latest_backup(filepath)
BkFind ==
    /\ bk.n < MaxBkCalls
    /\ \E filepath \in {P_RESOLV, P_RESOLVED, P_MISSING} :
        \E latest \in BkFindLatest(bk.ls, filepath) :
            BkCalled("_find_latest_backup", filepath, 0, latest, bk.ls)
    /\ UNCHANGED <<log, now>>
    /\ BkUnchanged

\* cleanup_old_backups(max_age_days)
BkCleanup ==
    /\ bk.n < MaxBkCalls
    /\ \E max_age_days \in {DefaultMaxAgeDays, 30},
          stuck \in SUBSET (DOMAIN bk.ls[P_RESOLV.dir]) :
        LET r == cleanup_old_backups(bk.ls, now, max_age_days, stuck)
        IN  /\ \A f \in stuck :
                  BkExpired(bk.ls, P_RESOLV.dir, f, now, max_age_days)
            /\ BkCalled("cleanup_old_backups", P_RESOLV, max_age_days, None, r.ls)
            /\ log' = IF r.cleaned > 0
                      THEN log_action(log, fs, LogEntry(now, "CLEANUP",
                                                <<"Auto-Cleanup: ">>))
                      ELSE log
    /\ UNCHANGED now
    /\ BkUnchanged

\* time passes between two calls: a second, or a day
BkTick ==
    /\ bk.n < MaxBkCalls
    /\ \E dt \in {1, DaySeconds} : now' = now + dt
    /\ bk' = [bk EXCEPT !.n = @ + 1, !.call = NoBkCall]
    /\ UNCHANGED log
    /\ BkUnchanged

NextBk == BkSnapshot \/ BkFind \/ BkCleanup \/ BkTick

SpecBackup == InitBk /\ [][NextBk]_vars

(***************************************************************************)
(* SpecFn: verify_dns_change and validate_ip called directly, as the unit  *)
(* tests call them, on resolver files of several shapes.  cur holds the    *)
(* call [fn, input, result], pre the files before it, and trace one event  *)
(* whose detail keeps the audit log before the call.                       *)
(***************************************************************************)
MaxFnCalls == 2

IP_1_1_1_1 == <<"1", ".", "1", ".", "1", ".", "1">>
IP6_CLOUDFLARE == <<"2", "6", "0", "6", ":", "4", "7", "0", "0", ":", "4", "7", "0", "0", ":", ":", "1", "1", "1", "1">>
IP6_LOOPBACK == <<":", ":", "1">>
IP6_DOC == <<"2", "0", "0", "1", ":", "d", "b", "8", ":", ":", "1">>
IP6_DOC_UPPER == <<"2", "0", "0", "1", ":", "D", "B", "8", ":", ":", "1">>
IP6_FULL == <<"2", "0", "0", "1", ":", "0", "d", "b", "8", ":", "8", "5", "a", "3", ":", "0", "0", "0", "0", ":", "0", "0", "0", "0", ":", "8", "a", "2", "e", ":", "0", "3", "7", "0", ":", "7", "3", "3", "4">>
IP6_FULL_SHORT == <<"2", "0", "0", "1", ":", "d", "b", "8", ":", "8", "5", "a", "3", ":", ":", "8", "a", "2", "e", ":", "3", "7", "0", ":", "7", "3", "3", "4">>
IP_OUT_OF_RANGE == <<"9", "9", "9", ".", "9", "9", "9", ".", "9", "9", "9", ".", "9", "9", "9">>
IP_PARTIAL == <<"1", "9", "2", ".", "1", "6", "8">>
IP6_NOT_HEX == <<"2", "0", "0", "1", ":", "x", "y", "z", ":", ":", "1">>

\* the strings of TestValidateIP and TestIPv6CustomInput: valid says that the
\* stripped string is an IP address, canonical that it is spelled as str()
\* spells that address
IpCase(str, valid, canonical) ==
    [str |-> str, valid |-> valid, canonical |-> canonical]

IpCases ==
    { IpCase(IP_8_8_8_8, TRUE, TRUE),
      IpCase(IP_1_1_1_1_PADDED, TRUE, TRUE),
      IpCase(IP6_CLOUDFLARE, TRUE, TRUE),
      IpCase(IP6_LOOPBACK, TRUE, TRUE),
      IpCase(IP6_DOC, TRUE, TRUE),
      IpCase(IP6_DOC_UPPER, TRUE, FALSE),
      IpCase(IP6_FULL, TRUE, FALSE),
      IpCase(NOT_AN_IP, FALSE, FALSE),
      IpCase(<<>>, FALSE, FALSE),
      IpCase(IP_OUT_OF_RANGE, FALSE, FALSE),
      IpCase(IP_PARTIAL, FALSE, FALSE),
      IpCase(IP6_NOT_HEX, FALSE, FALSE) }

\* the resolver files verify_dns_change reads, and the lists it is given
FnResolvFiles ==
    { Absent,
      FileOf(<<>>, 0),
      FileOf(DhcpResolvContent, 0),
      FileOf(StandardResolvContent("Google", <<IP_8_8_8_8, IP_8_8_4_4>>, 0), 0),
      FileOf(StandardResolvContent("Custom", <<IP_1_1_1_1>>, 0), 0),
      FileOf(<< L(<<"nameserver">>), L(<<"# nameserver ">> \o IP_8_8_8_8) >>, 0) }

FnExpected ==
    { <<>>, <<IP_8_8_8_8>>, <<IP_8_8_8_8, IP_8_8_4_4>>, <<IP_8_8_4_4, IP_8_8_8_8>>,
      <<IP_1_1_1_1>>, <<IP_8_8_8_8, IP_1_1_1_1>> }

InitFn ==
    /\ \E f \in FnResolvFiles : fs = [InitFs EXCEPT !.files[RESOLV_CONF] = f]
    /\ svc = InitSvc
    /\ installed = FALSE
    /\ chattr = TRUE
    /\ log = <<>>
    /\ now = 1
    /\ prog = <<>>
    /\ cur = NoCall
    /\ pre = fs
    /\ trace = <<>>
    /\ hist = <<>>
    /\ ops = 0
    /\ faults = 0
    /\ lim = [ops |-> MaxFnCalls, faults |-> 0]
    /\ aw = AwIdle
    /\ seen = Absent
    /\ bk = BkIdle

FnCalled(fn, input, result) ==
    /\ ops' = ops + 1
    /\ cur' = [fn |-> fn, provider |-> "", input |-> input, valid_ips |-> <<>>,
               result |-> result]
    /\ pre' = fs
    /\ trace' = << [e |-> fn, arg |-> "", ok |-> TRUE, detail |-> [log |-> log],
                    before |-> fs.files[RESOLV_CONF]] >>
    /\ UNCHANGED <<fs, svc, installed, chattr, prog, hist, faults, lim, aw, seen,
                   bk>>

\* verify_dns_change(expected_ips)
FnVerify ==
    /\ ops < lim.ops
    /\ \E expected_ips \in FnExpected :
        /\ FnCalled("verify_dns_change", expected_ips,
                    IF verify_dns_change(fs, expected_ips) THEN "True"
                    ELSE "False")
        /\ now' = now + VerifySettleSeconds
        /\ log' = IF verify_dns_change(fs, expected_ips) THEN log
                  ELSE log_action(log, fs, LogEntry(now + VerifySettleSeconds,
                                            "VERIFY_FAIL",
                                            <<"Expected ">>
                                            \o Join(expected_ips, ", ")
                                            \o <<", got ">>
                                            \o Join(get_current_dns(fs), ", ")))

\* validate_ip(ip_str)
FnValidate ==
    /\ ops < lim.ops
    /\ \E c \in IpCases :
        FnCalled("validate_ip", c, validate_ip(c.str))
    /\ UNCHANGED <<now, log>>

NextFn == FnVerify \/ FnValidate

SpecFn == InitFn /\ [][NextFn]_vars

(***************************************************************************)
(* Properties of atomic_write (SpecAW).                                    *)
(***************************************************************************)
AwNewFile(f) == f.exists /\ f.content = aw.content

\* C1: when atomic_write fails at a statement before the rename (open, write,
\* fsync), it returns failure, the target is exactly as it was when the call
\* began (same file, or still absent) and no "<path>.tmp" remains.
C1_FailureLeavesTarget ==
    (aw.pc = "done" /\ aw.failed \in {"open", "write", "fsync"}) =>
        /\ ~aw.result
        /\ fs.files[aw.filepath] = aw.old
        /\ ~fs.tmp[aw.filepath].exists

\* a write that failed after one line had reached the temporary file, over an
\* existing target
C1_Witness ==
    /\ aw.pc = "done" /\ aw.failed = "write" /\ aw.k = 1
    /\ aw.old.exists /\ ~aw.result

\* C2: a reader of the target during an atomic_write call sees the complete
\* old file (or its absence) or the complete new content, never an empty or
\* partial file; the target differs from the old file only once the rename
\* has succeeded.
C2_ReaderSeesOldOrNew ==
    aw.pc # "idle" =>
        /\ seen = aw.old \/ AwNewFile(seen)
        /\ fs.files[aw.filepath] = aw.old \/ AwNewFile(fs.files[aw.filepath])
        /\ fs.files[aw.filepath] # aw.old => (aw.pc = "done" /\ aw.result)

\* the reader read the old file while the temporary file already held all of
\* the new content
C2_Witness ==
    /\ aw.pc = "rename" /\ aw.read /\ aw.old.exists /\ seen = aw.old
    /\ fs.tmp[aw.filepath].content = aw.content
    /\ aw.content # aw.old.content

\* C3: when atomic_write returns success the target holds exactly the content
\* and no temporary file remains; a second successful call with the same
\* content leaves the same file content.
C3_SuccessAndIdempotence ==
    (aw.pc = "done" /\ aw.result) =>
        /\ AwNewFile(fs.files[aw.filepath])
        /\ ~fs.tmp[aw.filepath].exists
        /\ (aw.prev.result /\ aw.prev.filepath = aw.filepath
            /\ aw.prev.content = aw.content)
           => fs.files[aw.filepath].content = aw.prev.after.content

\* the second of two successful calls with the same content
C3_Witness ==
    /\ aw.pc = "done" /\ aw.result /\ aw.calls = 2
    /\ aw.prev.result /\ aw.prev.filepath = aw.filepath
    /\ aw.prev.content = aw.content

(***************************************************************************)
(* Properties of the mode transitions (Spec, SpecLong).                    *)
(***************************************************************************)
Last(seq) == seq[Len(seq)]

HasBackupOf(filepath, content) ==
    \E b \in fs.backups : b.of = filepath /\ b.content = content

\* C4: when set_dns, setup_dot or setup_doh has just made its write of the
\* resolver file, the calls before it include an unlock followed by a snapshot
\* of the resolver file, and a backup record holds the content the resolver
\* file had before the write (whether or not the write succeeded).
C4_SnapshotBeforeOverwrite ==
    (/\ trace # <<>>
     /\ cur.fn \in {"set_dns", "setup_dot", "setup_doh"}
     /\ Last(trace).e = "write" /\ Last(trace).arg = RESOLV_CONF
     /\ Last(trace).before.exists) =>
        /\ \E i, j \in 1..Len(trace) :
              /\ i < j
              /\ trace[i].e = "unlock"
              /\ trace[j].e = "backup" /\ trace[j].arg = RESOLV_CONF
        /\ HasBackupOf(RESOLV_CONF, Last(trace).before.content)

\* C5: when a transition has just overwritten or deleted a tracked file
\* (setup_dot and setup_doh their service config, the silent restore and
\* restore_default the resolved-service config, restore_default the resolver
\* file), a backup record holds the content the file had just before.
C5_BackupBeforeDestructiveWrite ==
    (/\ trace # <<>>
     /\ Last(trace).ok
     /\ Last(trace).before.exists
     /\ \/ /\ cur.fn \in {"setup_dot", "setup_doh"}
           /\ Last(trace).e = "write"
           /\ Last(trace).arg \in {SYSTEMD_RESOLVED_CONF, DNSCRYPT_PROXY_CONF}
        \/ Last(trace).e = "restore_silent"
        \/ /\ cur.fn = "restore_default"
           /\ Last(trace).e \in {"write", "remove"}) =>
        HasBackupOf(Last(trace).arg, Last(trace).before.content)

ConfigOf(service) ==
    IF service = DNSCRYPT THEN DNSCRYPT_PROXY_CONF ELSE SYSTEMD_RESOLVED_CONF

\* C6: in setup_dot, setup_doh and restore_default, every restart of
\* systemd-resolved or dnscrypt-proxy comes after a successful write of that
\* service's config in the same transition.
C6_RestartAfterDurableWrite ==
    \A j \in 1..Len(trace) :
        (/\ cur.fn \in {"setup_dot", "setup_doh", "restore_default"}
         /\ trace[j].e = "restart"
         /\ trace[j].arg \in {RESOLVED, DNSCRYPT}) =>
            \E i \in 1..(j - 1) :
                /\ trace[i].e = "write"
                /\ trace[i].arg = ConfigOf(trace[j].arg)
                /\ trace[i].ok

\* C7: in every transition, (a) each write or deletion of the resolver file
\* is preceded by an unlock with no lock in between; (b) each lock comes
\* after a successful write of the resolver file and no write of it follows;
\* (c) a returned set_dns, setup_dot or setup_doh whose resolver-file write
\* succeeded has locked afterwards, and restore_default never locks.
C7_GuardProtocol ==
    /\ \A j \in 1..Len(trace) :
          (trace[j].e \in {"write", "remove"} /\ trace[j].arg = RESOLV_CONF) =>
              \E i \in 1..(j - 1) :
                  /\ trace[i].e = "unlock"
                  /\ \A k \in (i + 1)..(j - 1) : trace[k].e # "lock"
    /\ \A j \in 1..Len(trace) :
          trace[j].e = "lock" =>
              /\ \E i \in 1..(j - 1) :
                    /\ trace[i].e = "write" /\ trace[i].arg = RESOLV_CONF
                    /\ trace[i].ok
              /\ \A k \in (j + 1)..Len(trace) :
                    ~(trace[k].e = "write" /\ trace[k].arg = RESOLV_CONF)
    /\ (prog = <<>> /\ cur.fn \in {"set_dns", "setup_dot", "setup_doh"}) =>
          \A i \in 1..Len(trace) :
              (trace[i].e = "write" /\ trace[i].arg = RESOLV_CONF /\ trace[i].ok)
                  => \E j \in (i + 1)..Len(trace) : trace[j].e = "lock"
    /\ cur.fn = "restore_default" =>
          \A j \in 1..Len(trace) : trace[j].e # "lock"

\* a setup_doh that has returned after unlock, a successful write of the
\* resolver file and lock, on a host whose resolver file was locked before
C7_Witness ==
    /\ prog = <<>> /\ cur.fn = "setup_doh" /\ cur.result = "done"
    /\ pre.immutable
    /\ \E i, j, k \in 1..Len(trace) :
          /\ i < j /\ j < k
          /\ trace[i].e = "unlock"
          /\ trace[j].e = "write" /\ trace[j].arg = RESOLV_CONF /\ trace[j].ok
          /\ trace[k].e = "lock"

\* C8: after one or more setup_dot transitions, all completed, followed by
\* set_dns, the resolved-service config that set_dns has restored from the
\* most recent backup does not have DNSOverTLS=yes.
C8_StandardUndoesDot ==
    (/\ cur.fn = "set_dns"
     /\ hist # <<>>
     /\ \A i \in 1..Len(hist) : hist[i].fn = "setup_dot" /\ hist[i].result = "done"
     /\ \E j \in 1..Len(trace) : trace[j].e = "restore_silent" /\ trace[j].ok) =>
        ~DotActive(fs)

AllDone ==
    /\ prog = <<>>
    /\ cur.result = "done"
    /\ \A i \in 1..Len(hist) : hist[i].result = "done"

\* C9: after any sequence of successful transitions, print_dot_status does
\* not report DoT active and DoH active at the same time.
C9_ModesExclusive == AllDone => ~(DotActive(fs) /\ DohActive(fs, svc))

\* the same set_dns, setup_dot or setup_doh applied twice in succession, both
\* successful
AppliedTwice ==
    /\ prog = <<>>
    /\ cur.fn \in {"set_dns", "setup_dot", "setup_doh"}
    /\ cur.result = "done"
    /\ hist # <<>>
    /\ Last(hist).fn = cur.fn
    /\ Last(hist).provider = cur.provider
    /\ Last(hist).valid_ips = cur.valid_ips
    /\ Last(hist).result = "done"

NormalisedValid(nameservers) ==
    LET IsValid(ns) == validate_ip(ns) # None
        valid == SelectSeq(nameservers, IsValid)
    IN  [i \in 1..Len(valid) |-> validate_ip(valid[i])]

NameserverLinesOf(content) ==
    LET IsNs(line) == line.txt # <<>> /\ line.txt[1] = "nameserver"
    IN  SelectSeq(content, IsNs)

ResolverWritten ==
    \E j \in 1..Len(trace) :
        trace[j].e = "write" /\ trace[j].arg = RESOLV_CONF /\ trace[j].ok

\* C11: once set_dns has written the resolver file, the file's nameserver
\* lines are exactly one "nameserver <ip>" line per valid input address, in
\* input order, none for an invalid entry, and get_current_dns reads back
\* exactly the normalised valid addresses in that order.
C11_OneLinePerValidAddress ==
    (cur.fn = "set_dns" /\ ResolverWritten) =>
        \A valid \in {NormalisedValid(cur.input)} :
            /\ valid # <<>>
            /\ NameserverLinesOf(fs.files[RESOLV_CONF].content) =
                  [i \in 1..Len(valid) |-> NameserverLine(valid[i])]
            /\ get_current_dns(fs) = valid

\* set_dns has returned after writing the list with one padded valid and one
\* invalid entry
C11_Witness ==
    /\ prog = <<>> /\ cur.fn = "set_dns" /\ cur.result = "done"
    /\ cur.input = <<IP_1_1_1_1_PADDED, NOT_AN_IP>>
    /\ ResolverWritten
    /\ get_current_dns(fs) = << <<"1", ".", "1", ".", "1", ".", "1">> >>

\* C12: while the current call is a set_dns whose address list has no valid
\* entry (all invalid, or empty), no step changes the files, the backup
\* records, the lock attribute or the service states: the call itself
\* changes none of them and makes no further call.
C12_AllInvalidNoSideEffect ==
    [][(/\ cur'.fn = "set_dns"
        /\ \A i \in 1..Len(cur'.input) :
              ip_address(strip(cur'.input[i])) = None) =>
          (fs' = fs /\ svc' = svc /\ log' = log /\ prog' = <<>>)]_vars

\* set_dns was called with an all-invalid list on a host in DoT mode with a
\* locked resolver file
C12_Witness ==
    /\ cur.fn = "set_dns" /\ cur.input = <<NOT_AN_IP>>
    /\ cur.result = "rejected"
    /\ fs.immutable /\ DotActive(fs)
    /\ fs.backups # {}

\* C13: every call of safe_restart_service, whatever the outcome of stop
\* (success, non-zero exit or timeout), has issued start, and has returned
\* success exactly when start succeeded.
C13_StopFailureTolerated ==
    \A j \in 1..Len(trace) :
        trace[j].e = "restart" =>
            /\ trace[j].detail.started
            /\ trace[j].ok <=> (trace[j].detail.start = "ok")

RestartFailed ==
    \E j \in 1..Len(trace) : trace[j].e = "restart" /\ ~trace[j].ok

\* C14: when the restart of the dependent service has failed in setup_dot or
\* setup_doh, the transition has returned, the service config holds what the
\* transition wrote, no unlock or later call was made, and the resolver file
\* and its lock attribute are as they were when the transition was called.
C14_RestartFailureAborts ==
    (cur.fn \in {"setup_dot", "setup_doh"} /\ RestartFailed) =>
        /\ prog = <<>> /\ cur.result = "aborted"
        /\ Last(trace).e = "restart"
        /\ \A j \in 1..Len(trace) : trace[j].e \notin {"unlock", "lock"}
        /\ fs.files[RESOLV_CONF] = pre.files[RESOLV_CONF]
        /\ fs.immutable = pre.immutable
        /\ cur.fn = "setup_dot" =>
              fs.files[SYSTEMD_RESOLVED_CONF].content =
                  DotResolvedContent(cur.provider)
        /\ cur.fn = "setup_doh" =>
              fs.files[DNSCRYPT_PROXY_CONF].content =
                  DohProxyContent(cur.provider)

\* setup_dot has returned after a failed start of systemd-resolved, on a
\* host whose resolver file was locked by an earlier transition
C14_Witness ==
    /\ cur.fn = "setup_dot" /\ RestartFailed
    /\ Last(trace).detail.start = "fail"
    /\ pre.immutable
    /\ DotActive(fs)

\* C15: setup_dot or setup_doh called with a provider that is not in its
\* provider table returns a failure (it does not crash) and has no side
\* effect: no file or backup record changes and no call is made.
C15_UnknownProviderFails ==
    (\/ cur.fn = "setup_dot" /\ cur.provider \notin DotProviders
     \/ cur.fn = "setup_doh" /\ cur.provider \notin DOMAIN DOH_PROVIDERS) =>
        /\ cur.result = "rejected"
        /\ prog = <<>> /\ trace = <<>>
        /\ fs = pre

\* a resolved-service config in which the DNS, FallbackDNS and DNSOverTLS
\* keys are set (not commented out)
SetsDnsKey(content) ==
    \E i \in 1..Len(content) :
        /\ content[i].txt # <<>>
        /\ content[i].txt[1] \in {"DNS=", "FallbackDNS=", "DNSOverTLS=yes"}

\* C16: when a confirmed restore_default has returned, the resolver file
\* does not exist and the resolved-service config exists with none of the
\* DNS, FallbackDNS and DNSOverTLS keys set (the baseline comments them out).
C16_DefaultIsBaseline ==
    (prog = <<>> /\ cur.fn = "restore_default" /\ cur.result = "done") =>
        /\ ~fs.files[RESOLV_CONF].exists
        /\ fs.files[SYSTEMD_RESOLVED_CONF].exists
        /\ ~SetsDnsKey(fs.files[SYSTEMD_RESOLVED_CONF].content)

\* the answers that are 'y' once trimmed and lower-cased
YesAnswers == {<<"y">>, <<" ", "Y", " ">>}

\* C17: while the current call is a restore_default whose answer is not 'y'
\* (trimmed, case-insensitive; the empty answer included), no step changes a
\* file, a backup record, the lock attribute or a service state, and the
\* call makes no further call.
C17_NoResetWithoutConfirmation ==
    [][(cur'.fn = "restore_default" /\ cur'.input \notin YesAnswers) =>
          (fs' = fs /\ svc' = svc /\ prog' = <<>>)]_vars

\* restore_default was answered with the empty answer on a host in DoT mode
\* with a locked resolver file
C17_Witness ==
    /\ cur.fn = "restore_default" /\ cur.input = <<>>
    /\ cur.result = "rejected"
    /\ fs.immutable /\ DotActive(fs)
    /\ fs.files[RESOLV_CONF].exists

\* C18: no step of a transition changes the content of an existing backup
\* record or removes one: every record (named by its file and timestamp)
\* is still there after the step with the same content, also when a
\* snapshot of the same file is taken again within the same second.
C18_BackupsImmutable ==
    [][\A b \in fs.backups :
          \E c \in fs.backups' :
              c.of = b.of /\ c.ts = b.ts /\ c.content = b.content]_vars

\* setup_dot has just taken a snapshot of the resolved-service config in the
\* same second as an earlier snapshot of it (the earlier setup_dot failed at
\* its write), so the record of that name was written a second time
C18_Witness ==
    /\ cur.fn = "setup_dot"
    /\ trace # <<>> /\ Last(trace).e = "backup" /\ Last(trace).ok
    /\ \E b \in pre.backups : b.of = SYSTEMD_RESOLVED_CONF /\ b.ts = now
    /\ \E b \in fs.backups : b.of = SYSTEMD_RESOLVED_CONF /\ b.ts = now

(***************************************************************************)
(* Properties of the backup files (SpecBackup).                            *)
(***************************************************************************)
\* name is base + ".backup_" + some suffix
IsBackupOf(name, base) ==
    \E k \in 0..Len(name) :
        name = base \o BACKUP_MARK \o SubSeq(name, Len(name) - k + 1, Len(name))

\* C19: _find_latest_backup(path) returns none exactly when path's directory
\* cannot be listed or holds no regular file named basename(path) +
\* ".backup_" + suffix; otherwise it returns such a file whose modification
\* time is the greatest among them, whatever other entries the directory
\* holds; it changes nothing.
C19_FindLatest ==
    bk.call.op = "_find_latest_backup" =>
        LET dir == bk.call.arg.dir
            cands == IF dir \notin DOMAIN bk.ls THEN {}
                     ELSE {f \in DOMAIN bk.ls[dir] :
                              /\ bk.ls[dir][f].kind = "file"
                              /\ IsBackupOf(f, bk.call.arg.base)}
        IN  /\ (bk.call.result = None) <=> (cands = {})
            /\ bk.call.result # None =>
                  /\ bk.call.result \in cands
                  /\ \A g \in cands :
                        bk.ls[dir][g].mtime <= bk.ls[dir][bk.call.result].mtime
            /\ bk.ls = bk.call.before

\* the newer of two backups of resolved.conf was returned from a directory
\* that also holds a still newer backup of another file
C19_Witness ==
    /\ bk.call.op = "_find_latest_backup"
    /\ bk.call.arg = P_RESOLVED
    /\ bk.call.result = N_RESOLVED \o BACKUP_MARK \o <<"B">>
    /\ (N_RESOLVED \o BACKUP_MARK \o <<"A">>) \in DOMAIN bk.ls["/etc/systemd"]
    /\ bk.ls["/etc/systemd"][N_OTHER \o BACKUP_MARK \o <<"A">>].mtime >
          bk.ls["/etc/systemd"][bk.call.result].mtime

\* C20: cleanup_old_backups(maxAgeDays) removes only entries whose name
\* holds ".backup_" and whose age (the time of the call minus the
\* modification time) is strictly greater than maxAgeDays days; every entry
\* at or under the threshold and every entry that is not backup-named is
\* still there with the same content, and no entry is added.
C20_CleanupRemovesOnlyOld ==
    bk.call.op = "cleanup_old_backups" =>
        \A dir \in DOMAIN bk.call.before :
            /\ DOMAIN bk.ls[dir] \subseteq DOMAIN bk.call.before[dir]
            /\ \A f \in DOMAIN bk.call.before[dir] :
                  LET old == (bk.call.at - bk.call.before[dir][f].mtime) >
                                 (bk.call.max_age_days * DaySeconds)
                      named == contains(f, BACKUP_MARK)
                  IN  /\ f \notin DOMAIN bk.ls[dir] => (named /\ old)
                      /\ (~named \/ ~old) =>
                            /\ f \in DOMAIN bk.ls[dir]
                            /\ bk.ls[dir][f] = bk.call.before[dir][f]

\* a cleanup with the default threshold removed the backup one second over
\* the threshold and kept the backup exactly at the threshold
C20_Witness ==
    /\ bk.call.op = "cleanup_old_backups"
    /\ bk.call.max_age_days = DefaultMaxAgeDays
    /\ (N_RESOLV \o BACKUP_MARK \o <<"A">>) \in DOMAIN bk.call.before["/etc"]
    /\ (N_RESOLV \o BACKUP_MARK \o <<"A">>) \notin DOMAIN bk.ls["/etc"]
    /\ (N_RESOLV \o BACKUP_MARK \o <<"B">>) \in DOMAIN bk.ls["/etc"]
    /\ bk.call.at - bk.ls["/etc"][N_RESOLV \o BACKUP_MARK \o <<"B">>].mtime =
          DefaultMaxAgeDays * DaySeconds

\* C21: after cleanup_old_backups(maxAgeDays), no backup of a tracked file
\* (resolv.conf in /etc, resolved.conf in /etc/systemd) that was created
\* more than maxAgeDays days before the call remains, and none created less
\* than maxAgeDays days before the call has been removed, whatever the age
\* of the file that was copied.
C21_RetentionByCreationAge ==
    bk.call.op = "cleanup_old_backups" =>
        \A path \in {P_RESOLV, P_RESOLVED} :
            \A f \in DOMAIN bk.call.before[path.dir] :
                (/\ IsBackupOf(f, path.base)
                 /\ bk.call.before[path.dir][f].kind = "file") =>
                    LET age == bk.call.at - bk.call.before[path.dir][f].born
                    IN  /\ age > bk.call.max_age_days * DaySeconds =>
                              f \notin DOMAIN bk.ls[path.dir]
                        /\ age < bk.call.max_age_days * DaySeconds =>
                              f \in DOMAIN bk.ls[path.dir]

(***************************************************************************)
(* Properties of verify_dns_change and validate_ip (SpecFn).               *)
(***************************************************************************)
\* the addresses of the resolver file's nameserver lines
ObservedIn(file) == IF file.exists THEN NameserversOf(file.content) ELSE <<>>

\* C22: verify_dns_change(expected) returns True exactly when every expected
\* address is among the nameserver entries of the resolver file (more
\* entries than expected are tolerated); when it returns False it has
\* appended one VERIFY_FAIL entry that holds the expected and the observed
\* list, and when it returns True it has logged nothing; the files are as
\* they were before the call.
C22_VerifyIsSubsetCheck ==
    cur.fn = "verify_dns_change" =>
        LET observed == ObservedIn(pre.files[RESOLV_CONF])
            before   == trace[1].detail.log
        IN  /\ cur.result \in {"True", "False"}
            /\ (cur.result = "True") <=>
                  \A i \in 1..Len(cur.input) :
                      \E j \in 1..Len(observed) : observed[j] = cur.input[i]
            /\ cur.result = "True" => log = before
            /\ cur.result = "False" =>
                  /\ Len(log) = Len(before) + 1
                  /\ SubSeq(log, 1, Len(before)) = before
                  /\ Last(log).action = "VERIFY_FAIL"
                  /\ contains(Last(log).details, Join(cur.input, ", "))
                  /\ contains(Last(log).details,
                              Join(get_current_dns(pre), ", "))
            /\ fs = pre

\* a match on a file that holds one address more than expected, after a
\* mismatch that was logged
C22_Witness ==
    /\ cur.fn = "verify_dns_change" /\ cur.result = "True"
    /\ cur.input = <<IP_8_8_8_8>>
    /\ Len(ObservedIn(fs.files[RESOLV_CONF])) = 2
    /\ log # <<>> /\ Last(log).action = "VERIFY_FAIL"

\* the address a string spells: its octets or hextets
AddressOf(str) ==
    IF ParseIPv4(str) # None THEN ParseIPv4(str) ELSE ParseIPv6(str)

IsStandardContent(content) ==
    /\ Len(content) >= 2
    /\ \E in \in StdInputs :
          /\ NormalisedValid(in.ns) # <<>>
          /\ content = StandardResolvContent(in.name, NormalisedValid(in.ns),
                                             content[2].t)

\* C24: in every reachable state the resolver file, when it exists, is the
\* file the host started with or one complete content generated by a single
\* transition (set_dns for one input, setup_dot, or setup_doh for one
\* provider), and each of its nameserver entries is a valid IP address.
C24_WholeAndValid ==
    fs.files[RESOLV_CONF].exists =>
        /\ \/ fs.files[RESOLV_CONF].content = DhcpResolvContent
           \/ fs.files[RESOLV_CONF].content = DotResolvContent
           \/ \E provider \in DOMAIN DOH_PROVIDERS :
                 fs.files[RESOLV_CONF].content = DohResolvContent(provider)
           \/ IsStandardContent(fs.files[RESOLV_CONF].content)
        /\ \A i \in 1..Len(NameserversOf(fs.files[RESOLV_CONF].content)) :
              ip_address(NameserversOf(fs.files[RESOLV_CONF].content)[i]) # None

\* the third transition in a row has replaced the resolver file by its own
\* content: set_dns after setup_dot and setup_doh
C24_Witness ==
    /\ cur.fn = "set_dns" /\ ResolverWritten
    /\ Len(hist) = 2
    /\ IsStandardContent(fs.files[RESOLV_CONF].content)
    /\ \E i \in 1..2 : hist[i].fn = "setup_dot" /\ hist[i].result = "done"
    /\ \E i \in 1..2 : hist[i].fn = "setup_doh" /\ hist[i].result = "done"

(***************************************************************************)
(* Properties of the audit log (SpecLog).                                  *)
(***************************************************************************)
LogActions ==
    {"SET_DNS", "SETUP_DOT", "SETUP_DOH", "RESTORE", "BACKUP", "ERROR", "FLUSH",
     "VERIFY_FAIL", "DNS_CONNECTIVITY"}

\* C25: every step leaves the audit log as it is or appends exactly one
\* entry [timestamp, ACTION, details], stamped with the time of the call,
\* after the existing entries; while the log cannot be written a step
\* leaves it as it is; and a call does not raise where it logs: a
\* transition ends by an exception only at the provider selection of
\* setup_dot, at the copy of restore_systemd_config_silent or at the removal
\* of the resolver file.
C25_LogAppendOnly ==
    [][/\ \/ log' = log
          \/ /\ fs.logWritable
             /\ Len(log') = Len(log) + 1
             /\ SubSeq(log', 1, Len(log)) = log
             /\ log'[Len(log')].ts \in {now, now'}
             /\ log'[Len(log')].action \in LogActions
       /\ (cur'.result = "crashed" /\ prog # <<>>) =>
             Ins.op \in {"restore_silent", "remove"}
       /\ (cur'.result = "crashed" /\ prog = <<>> /\ ops' # ops) =>
             (cur'.fn = "setup_dot" /\ cur'.provider \notin DotProviders)]_vars

\* set_dns has completed although the first two of its four entries (SET_DNS
\* and BACKUP) could not be logged; the later ones were appended
C25_Witness ==
    /\ cur.fn = "set_dns" /\ prog = <<>> /\ cur.result = "done"
    /\ Len(log) = 2
    /\ log[1].action = "FLUSH"
    /\ log[2].action = "DNS_CONNECTIVITY"
    /\ \E j \in 1..Len(trace) : trace[j].e = "backup" /\ trace[j].ok

\* the transition has returned on one of the fatal outcomes: no valid
\* address, a failed atomic write it returns on, a failed restart it returns
\* on, or an unknown provider
FatalOutcome ==
    /\ prog = <<>>
    /\ \/ cur.fn = "set_dns" /\ cur.result = "rejected"
       \/ /\ cur.result = "aborted"
          /\ Last(trace).e \in {"write", "restart"}
       \/ cur.fn = "setup_dot" /\ cur.provider \notin DotProviders
       \/ cur.fn = "setup_doh" /\ cur.provider \notin DOMAIN DOH_PROVIDERS

\* C26: when a transition has returned on a fatal outcome, the last entry of
\* the audit log records that failure (an ERROR entry written before the
\* return).
C26_FatalOutcomesLogged ==
    FatalOutcome => (log # <<>> /\ Last(log).action = "ERROR")

\* C27: the calls of set_dns, setup_dot and setup_doh follow the common
\* skeleton: (a) every write of the resolver file comes after an unlock and
\* a snapshot of the resolver file, in this order; (b) in setup_dot and
\* setup_doh every write of the service config and every restart comes
\* after the successful write of the resolver file; (c) every lock comes
\* after the writes and the restart; (d) a completed transition has verified
\* the resolver file after the lock.
C27_SkeletonOrder ==
    cur.fn \in {"set_dns", "setup_dot", "setup_doh"} =>
        /\ \A j \in 1..Len(trace) :
              (trace[j].e = "write" /\ trace[j].arg = RESOLV_CONF) =>
                  \E i \in 1..(j - 1), k \in 1..(j - 1) :
                      /\ i < k
                      /\ trace[i].e = "unlock"
                      /\ trace[k].e = "backup" /\ trace[k].arg = RESOLV_CONF
        /\ \A j \in 1..Len(trace) :
              (/\ cur.fn \in {"setup_dot", "setup_doh"}
               /\ \/ trace[j].e = "restart"
                  \/ trace[j].e = "write" /\ trace[j].arg # RESOLV_CONF) =>
                  \E i \in 1..(j - 1) :
                      /\ trace[i].e = "write" /\ trace[i].arg = RESOLV_CONF
                      /\ trace[i].ok
        /\ \A j \in 1..Len(trace) :
              trace[j].e = "lock" =>
                  \A k \in (j + 1)..Len(trace) :
                      trace[k].e \notin {"write", "restart"}
        /\ (prog = <<>> /\ cur.result = "done") =>
              \E l \in 1..Len(trace), v \in 1..Len(trace) :
                  l < v /\ trace[l].e = "lock" /\ trace[v].e = "verify"

\* C28: in set_dns, whatever the silent restore did (the copy of the latest
\* backup failed, the restart failed, or both worked), the call goes on with
\* unlock, snapshot and write of the resolver file, in this order; and when
\* resolved.conf has no backup the restore changes no file, restarts nothing
\* and takes no time.
C28_SilentRestoreNonFatal ==
    (cur.fn = "set_dns" /\ trace # <<>>) =>
        /\ trace[1].e = "restore_silent"
        /\ cur.result # "crashed"
        /\ Len(trace) < 4 => (prog # <<>> /\ cur.result = "running")
        /\ Len(trace) >= 4 =>
              /\ trace[2].e = "unlock"
              /\ trace[3].e = "backup" /\ trace[3].arg = RESOLV_CONF
              /\ trace[4].e = "write" /\ trace[4].arg = RESOLV_CONF
        /\ (/\ Len(trace) = 1
            /\ \A b \in pre.backups : b.of # SYSTEMD_RESOLVED_CONF) =>
              /\ fs = pre
              /\ ~trace[1].detail.started /\ trace[1].detail.stop = ""


(***************************************************************************)
(* Termination of the transitions (SpecLog).                               *)
(***************************************************************************)
ProgramOf(fn) ==
    CASE fn = "set_dns"         -> set_dns_prog
      [] fn = "setup_dot"       -> setup_dot_prog
      [] fn = "setup_doh"       -> setup_doh_prog
      [] fn = "restore_default" -> restore_default_prog
      [] OTHER                  -> <<>>

DoSteps ==
    \/ DoRestoreSilent \/ DoUnlock \/ DoLock \/ DoBackup \/ DoWrite
    \/ DoEnable \/ DoStopDisable \/ DoRestart \/ DoRemove \/ DoMakedirs
    \/ DoFlush \/ DoVerify \/ DoProbe

\* C29: whatever each external step answers (success, failure, timeout), a
\* transition makes the calls of its own body once each and in order: the
\* calls made so far are a prefix of the body, none is made twice, a running
\* transition can always make its next call, and a transition that is over
\* either made them all or stopped at the one call that failed.
C29_TransitionsTerminate ==
    cur # NoCall =>
        LET p == ProgramOf(cur.fn)
            n == Len(trace)
        IN  /\ n <= Len(p)
            /\ \A i \in 1..n : trace[i].e = p[i].op /\ trace[i].arg = p[i].arg
            /\ \A i \in 1..(n - 1) : trace[i].ok \/ ~p[i].abort
            /\ cur.result \in {"running", "done", "aborted", "crashed",
                               "rejected"}
            /\ cur.result = "running" =>
                  /\ prog # <<>> /\ prog = SubSeq(p, n + 1, Len(p))
                  /\ ENABLED DoSteps
            /\ cur.result = "done" => (prog = <<>> /\ n = Len(p))
            /\ cur.result = "aborted" =>
                  (prog = <<>> /\ n > 0 /\ ~trace[n].ok /\ p[n].abort)
            /\ cur.result = "crashed" =>
                  (prog = <<>> /\ (n = 0 \/ ~trace[n].ok))
            /\ cur.result = "rejected" => (prog = <<>> /\ n = 0)

\* a DoT transition stopped at the restart whose service start timed out,
\* with calls of its body left unmade
C29_Witness ==
    /\ cur.fn = "setup_dot" /\ cur.result = "aborted"
    /\ Last(trace).e = "restart" /\ Last(trace).detail.start = "timeout"
    /\ Len(trace) < Len(setup_dot_prog)

(***************************************************************************)
(* The service configs of the DoT and DoH transitions (SpecProviders).     *)
(***************************************************************************)
\* the lines of a content whose first chunk is the given text
LinesWith(content, first) ==
    {i \in 1..Len(content) :
        content[i].txt # <<>> /\ content[i].txt[1] = first}

\* the running or finished transition wrote the path successfully
WroteOk(filepath) ==
    \E i \in 1..Len(trace) :
        trace[i].e = "write" /\ trace[i].arg = filepath /\ trace[i].ok

\* C30: once setup_dot has written the service config, it is the [Resolve]
\* section with the selected provider's DNS list, DNSOverTLS=yes and
\* DNSSEC=allow-downgrade and without DNSSEC=no; once setup_doh has written
\* the proxy config, it has doh_servers = true and one static entry, that of
\* the selected provider (server name and stamp); both are the same for the
\* same provider, whatever the host was before.
C30_ConfigDeterminedByProvider ==
    /\ (cur.fn = "setup_dot" /\ WroteOk(SYSTEMD_RESOLVED_CONF)) =>
          LET c == fs.files[SYSTEMD_RESOLVED_CONF].content
          IN  /\ fs.files[SYSTEMD_RESOLVED_CONF].exists
              /\ c[1].txt = <<"[Resolve]">>
              /\ \E i \in 1..Len(c) :
                    /\ LinesWith(c, "DNS=") = {i}
                    /\ c[i].txt = <<"DNS=", DotDns(cur.provider)>>
              /\ \E i \in 1..Len(c) : c[i].txt = <<"DNSOverTLS=yes">>
              /\ \E i \in 1..Len(c) : c[i].txt = <<"DNSSEC=allow-downgrade">>
              /\ ~HasChunk(c, {"DNSSEC=no", "#DNSSEC=no"})
              /\ c = DotResolvedContent(cur.provider)
    /\ (cur.fn = "setup_doh" /\ WroteOk(DNSCRYPT_PROXY_CONF)) =>
          LET c    == fs.files[DNSCRYPT_PROXY_CONF].content
              prov == DOH_PROVIDERS[cur.provider]
          IN  /\ fs.files[DNSCRYPT_PROXY_CONF].exists
              /\ HasDohFlag(c)
              /\ \E i \in 1..(Len(c) - 1) :
                    /\ LinesWith(c, "[static.'") = {i}
                    /\ c[i].txt = <<"[static.'", prov.server_name, "']">>
                    /\ LinesWith(c, "stamp = '") = {i + 1}
                    /\ c[i + 1].txt = <<"stamp = '", prov.stamp, "'">>
              /\ c = DohProxyContent(cur.provider)

\* a DoT transition for Quad9 followed by a DoH transition for Google, both
\* run to their end, each config that of its own provider
C30_Witness ==
    /\ cur.fn = "setup_doh" /\ cur.provider = "Google" /\ cur.result = "done"
    /\ hist # <<>>
    /\ hist[1].fn = "setup_dot" /\ hist[1].provider = "Quad9"
    /\ hist[1].result = "done"
    /\ fs.files[SYSTEMD_RESOLVED_CONF].content = DotResolvedContent("Quad9")
    /\ fs.files[DNSCRYPT_PROXY_CONF].content = DohProxyContent("Google")

(***************************************************************************)
(* Rejected DoT and DoH transitions (SpecProviders).                       *)
(***************************************************************************)
\* C31: a setup_dot called while the resolved-service config does not exist,
\* and a setup_doh for a known provider called while the proxy is not
\* installed and the answer to the install prompt is not 'y', return at once:
\* no file, temporary file, backup or directory is written, no service is
\* stopped or started, the lock of the resolver file is untouched, the proxy
\* is not installed, and the only trace is the one audit entry of the call.
C31_RejectedChangesNothing ==
    [][(/\ ops' = ops + 1
        /\ \/ /\ cur'.fn = "setup_dot"
              /\ ~fs.files[SYSTEMD_RESOLVED_CONF].exists
           \/ /\ cur'.fn = "setup_doh"
              /\ cur'.provider \in DOMAIN DOH_PROVIDERS
              /\ ~installed
              /\ ~Confirmed(cur'.input))
       => /\ cur'.result = "rejected"
          /\ prog' = <<>> /\ trace' = <<>>
          /\ fs' = fs
          /\ svc' = svc
          /\ installed' = installed
          /\ Len(log') = Len(log) + 1
          /\ log'[Len(log')].action \in {"SETUP_DOT", "SETUP_DOH"}]_vars

\* a setup_dot rejected for the missing config, then a setup_doh rejected at
\* the install prompt, the host as it was at the start
C31_Witness ==
    /\ cur.fn = "setup_doh" /\ cur.result = "rejected"
    /\ cur.provider = "Cloudflare" /\ cur.input = <<"n">>
    /\ ~installed
    /\ hist # <<>>
    /\ hist[1].fn = "setup_dot" /\ hist[1].result = "rejected"
    /\ fs = NoResolvedFs
    /\ svc = InitSvc

(***************************************************************************)
(* The loopback resolver of the DoT and DoH transitions (SpecLog).         *)
(***************************************************************************)
\* the service behind the loopback address a transition writes
LoopbackService(fn) == IF fn = "setup_dot" THEN RESOLVED ELSE DNSCRYPT
LoopbackAddress(fn) == IF fn = "setup_dot" THEN IP_STUB ELSE IP_LOCAL

\* C32: in setup_dot and setup_doh every write of the resolver file comes
\* after a restart of the transition's own service that returned success
\* (its start exited with 0); a resolver file the transition has changed
\* names the loopback address of a service that is active; and after a
\* failed restart the transition is over with the resolver file as it was.
C32_LoopbackOnlyWhenRunning ==
    cur.fn \in {"setup_dot", "setup_doh"} =>
        /\ \A i \in 1..Len(trace) :
              (trace[i].e = "write" /\ trace[i].arg = RESOLV_CONF) =>
                  \E j \in 1..(i - 1) :
                      /\ trace[j].e = "restart"
                      /\ trace[j].arg = LoopbackService(cur.fn)
                      /\ trace[j].ok /\ trace[j].detail.start = "ok"
        /\ fs.files[RESOLV_CONF] # pre.files[RESOLV_CONF] =>
              /\ WroteOk(RESOLV_CONF)
              /\ get_current_dns(fs) = <<LoopbackAddress(cur.fn)>>
              /\ svc[LoopbackService(cur.fn)].active
        /\ (\E j \in 1..Len(trace) : trace[j].e = "restart" /\ ~trace[j].ok) =>
              /\ cur.result = "aborted" /\ prog = <<>>
              /\ fs.files[RESOLV_CONF] = pre.files[RESOLV_CONF]

\* a DoH transition that has written 127.0.0.1 after dnscrypt-proxy started
C32_Witness ==
    /\ cur.fn = "setup_doh" /\ WroteOk(RESOLV_CONF)
    /\ get_current_dns(fs) = <<IP_LOCAL>>
    /\ get_current_dns(pre) # <<IP_LOCAL>>
    /\ svc[DNSCRYPT].active

(***************************************************************************)
(* The resolver in use when a DoH transition fails (Spec).                 *)
(***************************************************************************)
\* setup_doh returned at the failed restart of dnscrypt-proxy
DohStartFailed ==
    /\ cur.fn = "setup_doh" /\ cur.result = "aborted"
    /\ trace # <<>> /\ Last(trace).e = "restart"

\* C33: when setup_doh returns because dnscrypt-proxy did not start,
\* systemd-resolved is as it was before the transition (before the first
\* transition of a host it is active and enabled, InitSvc), and a resolver
\* file that names the 127.0.0.53 stub names an active, enabled service.
C33_ResolvedKeptOnFailure ==
    DohStartFailed =>
        /\ hist = <<>> => svc[RESOLVED] = InitSvc[RESOLVED]
        /\ get_current_dns(fs) = <<IP_STUB>> =>
              (svc[RESOLVED].active /\ svc[RESOLVED].enabled)

(***************************************************************************)
(* The immutability guard after a failed write (Spec).                     *)
(***************************************************************************)
\* the transition returned at the failed atomic write of the resolver file
ResolverWriteFailed ==
    /\ cur.fn \in {"set_dns", "setup_dot", "setup_doh"}
    /\ cur.result = "aborted"
    /\ trace # <<>>
    /\ Last(trace).e = "write" /\ Last(trace).arg = RESOLV_CONF

\* C34: when set_dns, setup_dot or setup_doh returns because the atomic
\* write of the resolver file failed, and the resolver file was immutable
\* when the transition was called, it is immutable again.
C34_GuardRestoredOnFailure ==
    (ResolverWriteFailed /\ pre.immutable) => fs.immutable
====
